---------------------------- MODULE Spec2Model ----------------------------
(***************************************************************************)
(* A model of sage/schemes/curves/zariski_vankampen.py: the braid          *)
(* monodromy pipeline of the Zariski-Van Kampen method.                    *)
(*                                                                         *)
(* Every component of the pipeline has its own specification over the same *)
(* variables; a component's actions leave the other components untouched.  *)
(*                                                                         *)
(* Exact rationals are kept as integers over a common denominator:         *)
(*   - a sample time t is the integer t * One (One quarter-steps make 1);  *)
(*   - a merged coordinate is the integer Scale * coordinate, so that the  *)
(*     linear interpolation of lines 98-99 is exact.                       *)
(* Comparisons, crossing parameters and signs are invariant under this     *)
(* scaling.                                                                *)
(***************************************************************************)
EXTENDS Integers, Sequences, FiniteSets, TLC

VARIABLES
  bpc,        \* braid_from_piecewise: "input" | "done" | "joined"
  strands,    \* ... the family passed to braid_from_piecewise
  braid,      \* ... its result: [err, word]
  strandsB,   \* ... a second family, starting where `strands` ends
  braidB,     \* ... braid_from_piecewise(strandsB)
  braidAB,    \* ... braid_from_piecewise of the concatenated family
  gin,        \* geometric_basis: the arguments of the outermost call
  gstack,     \* ... the frames of the calls in progress, innermost last
  gpc,        \* ... "idle" | "running" | "returned" | "raised" | "diverged"
  gerr,       \* ... the exception that ended the outermost call
  gresult,    \* ... the value the outermost call returned
  gcalls,     \* ... the number of recursive calls made so far
  vpc,        \* corrected_voronoi_diagram: "idle" | "loop" | "returned"
  vpoints,    \* ... the input points
  vprec,      \* ... prec, in bits of mantissa
  vdiagram,   \* ... the sites of the diagram that is returned
  rpc,        \* roots_interval: "idle" | "called" | "returned" | "raised"
  rroots,     \* ... roots, the roots of the fibre f(x0, y)
  rerr,       \* ... the exception raised
  rresult,    \* ... the dict that is returned
  cpc,        \* roots_interval_cached: "idle" | "ready"
  roots_interval_cache,   \* ... the global dict of line 60
  ccalls,     \* ... the number of calls of roots_interval made
  chistory,   \* ... the calls of roots_interval_cached made, in order
  mpc,        \* braid_monodromy: "idle" | "basis" | "collected" | "retry" |
              \* ... "computed" | "tabled" | "returned" | "raised"
  msegs,      \* ... segs, after line 934
  mbatches,   \* ... the batches dispatched to braid_in_segment, in order
  mbraids,    \* ... braidscomputed
  segsbraids, \* ... the table of the braids of the segments
  mresult,    \* ... result
  merr,       \* ... the exception that left braid_monodromy
  mtasks,     \* ... for every dispatch, what its braid_in_segment tasks looked up
  spc,        \* braid_in_segment: "idle" | "called" | "returned" | "raised"
  sx0,        \* ... X0
  sx1,        \* ... X1
  sstrands,   \* ... complexstrands
  sbraid,     \* ... the braid returned, or the exception raised: [err, word]
  opc,        \* orient_circuit on a circuit and its reverse: "idle" | "called" | "done"
  ocircuit,   \* ... the circuit, a list of edges
  oforward,   \* ... orient_circuit(circuit): [returns, circuit]
  obackward,  \* ... orient_circuit(cirinv)
  ipc,        \* braid_in_segment, lines 611-628: "idle" | "loop" | "follow"
  iroots,     \* ... for every factor f of g, y0sf: the roots of f(X0, y)
  ifactor,    \* ... the factor the for loop of line 614 is at
  iprecision, \* ... precision[f], for the factors reached
  iintervals  \* ... intervals[f], for the factors reached

braidVars == <<bpc, strands, braid, strandsB, braidB, braidAB>>
basisVars == <<gin, gstack, gpc, gerr, gresult, gcalls>>
voronoiVars == <<vpc, vpoints, vprec, vdiagram>>
rootsVars == <<rpc, rroots, rerr, rresult>>
cacheVars == <<cpc, roots_interval_cache, ccalls, chistory>>
monodromyVars == <<mpc, msegs, mbatches, mbraids, segsbraids, mresult, merr, mtasks>>
segmentVars == <<spc, sx0, sx1, sstrands, sbraid>>
orientVars == <<opc, ocircuit, oforward, obackward>>
startVars == <<ipc, iroots, ifactor, iprecision, iintervals>>
vars == <<braidVars, basisVars, voronoiVars, rootsVars, cacheVars, monodromyVars,
          segmentVars,
          orientVars,
          startVars>>

\* what the actions of one component leave alone
notBraid == <<basisVars, voronoiVars, rootsVars, cacheVars, monodromyVars,
  segmentVars,
  orientVars,
  startVars>>
notBasis == <<braidVars, voronoiVars, rootsVars, cacheVars, monodromyVars,
  segmentVars,
  orientVars,
  startVars>>
notVoronoi == <<braidVars, basisVars, rootsVars, cacheVars, monodromyVars,
  segmentVars,
  orientVars,
  startVars>>
notRoots == <<braidVars, basisVars, voronoiVars, cacheVars, monodromyVars,
  segmentVars,
  orientVars,
  startVars>>
notCache == <<braidVars, basisVars, voronoiVars, rootsVars, monodromyVars,
  segmentVars,
  orientVars,
  startVars>>
notMonodromy == <<braidVars, basisVars, voronoiVars, rootsVars, cacheVars,
  segmentVars,
  orientVars,
  startVars>>
notOrient == <<braidVars, basisVars, voronoiVars, rootsVars, cacheVars, monodromyVars,
  segmentVars,
  startVars>>
notStart == <<braidVars, basisVars, voronoiVars, rootsVars, cacheVars, monodromyVars,
  segmentVars, orientVars>>

-----------------------------------------------------------------------------
(* Generic helpers *)

Min(S) == CHOOSE m \in S : \A x \in S : m <= x
Max(S) == CHOOSE m \in S : \A x \in S : x <= m
Abs(x) == IF x < 0 THEN -x ELSE x
Range(s) == {s[i] : i \in DOMAIN s}
\* the function f on 1 .. n as an explicit sequence (a Python list)
AsList(f) == <<>> \o f
Reverse(s) == AsList([i \in 1..Len(s) |-> s[Len(s) + 1 - i]])

\* list.sort(): the elements of s in increasing order, equal elements in their
\* old order (the sort is stable); before[i, j] says that s[i] < s[j]
SortList(s, before) ==
  LET rank(i) == 1 + Cardinality({j \in DOMAIN s :
                      before[j, i] \/ (~before[i, j] /\ j < i)})
  IN AsList([p \in DOMAIN s |-> s[CHOOSE i \in DOMAIN s : rank(i) = p]])

\* Python's order on two-element lists / tuples of numbers
PointLess(p, q) == p[1] < q[1] \/ (p[1] = q[1] /\ p[2] < q[2])

-----------------------------------------------------------------------------
(* braid_from_piecewise (lines 63-150) *)

TimeGrid == 0 .. 4
One == Max(TimeGrid)                      \* the time 1 of lines 89 and 108
Scale == CHOOSE s \in 1 .. 60 :
           /\ \A d \in 1 .. One : s % d = 0
           /\ \A r \in 1 .. (s - 1) : \E d \in 1 .. One : r % d # 0

NoErr == "none"

\* Interpolar with the offset of the sample before i forgotten
Interpolar_NoOffset(val, idx, i) ==
  LET aaux == val[idx - 1][1]
      baux == val[idx][1]
      xauxr == val[idx - 1][2]
      xauxi == val[idx - 1][3]
      yauxr == val[idx][2]
      yauxi == val[idx][3]
  IN <<Scale * xauxr + ((Scale \div (baux - aaux)) * (yauxr - xauxr) * i),
       Scale * xauxi + ((Scale \div (baux - aaux)) * (yauxi - xauxi) * i)>>

\* lines 92-99: the strand val interpolated at time i between its samples
\* idx-1 and idx
Interpolar(val, idx, i) ==
  LET aaux == val[idx - 1][1]
      baux == val[idx][1]
      xauxr == val[idx - 1][2]
      xauxi == val[idx - 1][3]
      yauxr == val[idx][2]
      yauxi == val[idx][3]
  IN <<Scale * xauxr + ((Scale \div (baux - aaux)) * (yauxr - xauxr) * (i - aaux)),
       Scale * xauxi + ((Scale \div (baux - aaux)) * (yauxi - xauxi) * (i - aaux))>>

RECURSIVE MergeLoop(_, _, _, _)
\* lines 89-105: one pass of the while loop for the breakpoint i.  indices[j]
\* is the (1-based) index of the next sample of strand j
MergeLoop(L, i, indices, totalpoints) ==
  IF ~(i < One) THEN totalpoints
  ELSE LET ahead(j) == L[j][indices[j]][1] > i
           tp2 == AsList([j \in DOMAIN L |->
                     Append(totalpoints[j],
                            IF ahead(j) THEN Interpolar(L[j], indices[j], i)
                            ELSE <<Scale * L[j][indices[j]][2],
                                   Scale * L[j][indices[j]][3]>>)])
           ind2 == AsList([j \in DOMAIN L |->
                     IF ahead(j) THEN indices[j] ELSE indices[j] + 1])
           i2 == Min({L[k][ind2[k]][1] : k \in DOMAIN L})
       IN MergeLoop(L, i2, ind2, tp2)

\* lines 85-108: the strands sampled at the merged breakpoints
TotalPoints(L) ==
  LET first == AsList([j \in DOMAIN L |-> << <<Scale * L[j][1][2], Scale * L[j][1][3]>> >>])
      i0 == Min({L[j][2][1] : j \in DOMAIN L})
      merged == MergeLoop(L, i0, AsList([j \in DOMAIN L |-> 2]), first)
  IN AsList([j \in DOMAIN L |->
        Append(merged[j], <<Scale * L[j][Len(L[j])][2], Scale * L[j][Len(L[j])][3]>>)])

\* lines 112-117
sgn(x, y) == IF x < y THEN 1 ELSE IF x > y THEN -1 ELSE 0

\* no sort at line 122
MLess_AsListed(a, b) == FALSE
\* line 122: M.sort() on the pairs [l1[s], l2[s]]
MLess(a, b) == PointLess(a[1], b[1]) \/ (a[1] = b[1] /\ PointLess(a[2], b[2]))

\* lines 129-131: the crossing of the strands at (0-based) sorted places k-1
\* and j-1; the parameter t is the fraction tn / td
Cruce(l1, l2, k, j) ==
  LET tn == l1[j][1] - l1[k][1]
      td == (l2[k][1] - l2[j][1]) + (l1[j][1] - l1[k][1])
  IN [tn |-> tn, td |-> td, k |-> k, j |-> j,
      s |-> sgn(l1[k][2] * (td - tn) + tn * l2[k][2],
                l1[j][2] * (td - tn) + tn * l2[j][2])]

\* line 133: cruces.sort() on the lists [t, k, j, s]
CruceLess(a, b) ==
  \/ a.tn * b.td < b.tn * a.td
  \/ /\ a.tn * b.td = b.tn * a.td
     /\ \/ a.k < b.k
        \/ a.k = b.k /\ a.j < b.j
        \/ a.k = b.k /\ a.j = b.j /\ a.s < b.s

SameT(a, b) == a.tn * b.td = b.tn * a.td

\* line 138 / 146: (P(c[2]+1) - P(c[1]+1), c[1], c[2], c[3])
Cross(P, c) == <<P[c.j] - P[c.k], c.k, c.j, c.s>>

\* the crossing of the strands that are farthest apart first
CrossLess_FarthestFirst(a, b) == a[1] > b[1] \/ (a[1] = b[1] /\ a[2] < b[2])

\* line 142: crossesl.sort() on the tuples (difference, k, j, sign)
CrossLess(a, b) ==
  \/ a[1] < b[1]
  \/ a[1] = b[1] /\ a[2] < b[2]
  \/ a[1] = b[1] /\ a[2] = b[2] /\ a[3] < b[3]
  \/ a[1] = b[1] /\ a[2] = b[2] /\ a[3] = b[3] /\ a[4] < b[4]

\* line 145: G(Permutation([(a, b)])) * P, the product read left to right
SwapThen(P, a, b) ==
  AsList([x \in DOMAIN P |-> P[IF x = a THEN b ELSE IF x = b THEN a ELSE x]])

\* Generator with the larger of the two positions
Generator_MaxPosition(P, c) == c[4] * Max({P[c[2]], P[c[3]]})

\* line 144: the generator appended for the crossing c
Generator(P, c) == c[4] * Min({P[c[2]], P[c[3]]})

RECURSIVE ResolveSameT(_, _, _)
\* lines 141-147: the crossings of one parameter t, resolved one at a time.
\* res holds braid (res.word) and, next to it, the crossings c popped at line
\* 143, in order (res.crosses)
ResolveSameT(crossesl, P, res) ==
  IF crossesl = <<>> THEN [P |-> P, res |-> res]
  ELSE LET sorted == SortList(crossesl, [a, b \in DOMAIN crossesl |->
                                          CrossLess(crossesl[a], crossesl[b])])
           c == sorted[1]
           P2 == SwapThen(P, c[2], c[3])
           rest == AsList([r \in 1 .. (Len(sorted) - 1) |->
                      <<P2[sorted[r + 1][3]] - P2[sorted[r + 1][2]],
                        sorted[r + 1][2], sorted[r + 1][3], sorted[r + 1][4]>>])
       IN ResolveSameT(rest, P2, [res EXCEPT !.word = Append(@, Generator(P, c)),
                                             !.crosses = Append(@, c)])

RECURSIVE ResolveCruces(_, _, _)
\* lines 135-147: the while loop over the sorted crossings
ResolveCruces(cruces, P, res) ==
  IF cruces = <<>> THEN res
  ELSE LET crucesl == SelectSeq(cruces, LAMBDA c : SameT(c, cruces[1]))
           crossesl == AsList([r \in 1 .. Len(crucesl) |-> Cross(P, crucesl[r])])
           st == ResolveSameT(crossesl, P, res)
       IN ResolveCruces(SubSeq(cruces, Len(crucesl) + 1, Len(cruces)), st.P, st.res)

\* lines 119-131: the crossings of the interval between the merged columns
\* i and i+1, in the order the two for loops append them
Cruces(totalpoints, i) ==
  LET n == Len(totalpoints)
      M0 == AsList([s \in 1 .. n |-> <<totalpoints[s][i], totalpoints[s][i + 1]>>])
      M == SortList(M0, [a, b \in 1 .. n |-> MLess(M0[a], M0[b])])
      l1 == AsList([s \in 1 .. n |-> M[s][1]])
      l2 == AsList([s \in 1 .. n |-> M[s][2]])
      pairs == {<<k, j>> \in (1 .. n) \X (1 .. n) : k < j /\ PointLess(l2[j], l2[k])}
      \* for j: for k in range(j): the append order is by (j, k)
      order(a, b) == a[2] < b[2] \/ (a[2] = b[2] /\ a[1] < b[1])
      RECURSIVE listed(_)
      listed(S) == IF S = {} THEN <<>>
                   ELSE LET m == CHOOSE a \in S : \A b \in S \ {a} : order(a, b)
                        IN <<Cruce(l1, l2, m[1], m[2])>> \o listed(S \ {m})
  IN listed(pairs)

RECURSIVE IntervalLoop(_, _, _)
\* lines 118-147: the for loop over the merged intervals
IntervalLoop(totalpoints, i, res) ==
  IF i > Len(totalpoints[1]) - 1 \/ res.err # NoErr THEN res
  ELSE LET cruces == Cruces(totalpoints, i)
       IN IF \E r \in 1 .. Len(cruces) : cruces[r].td = 0
          THEN [err |-> "ZeroDivisionError", word |-> <<>>, crosses |-> <<>>]
          ELSE LET P0 == AsList([x \in 1 .. Len(totalpoints) |-> x])
                   sorted == SortList(cruces, [a, b \in DOMAIN cruces |->
                                                 CruceLess(cruces[a], cruces[b])])
               IN IntervalLoop(totalpoints, i + 1, ResolveCruces(sorted, P0, res))

\* lines 63-150
braid_from_piecewise(L) ==
  \* line 87: min() of no strand raises
  IF L = <<>> THEN [err |-> "ValueError: min() arg is an empty sequence", word |-> <<>>]
  ELSE LET res == IntervalLoop(TotalPoints(L), 1,
                               [err |-> NoErr, word |-> <<>>, crosses |-> <<>>])
       IN [err |-> res.err, word |-> res.word]

-----------------------------------------------------------------------------
(* The families of strands braid_from_piecewise is applied to *)

\* the strands' samples lie on the grid (0 .. MaxX) x YVals
MaxX == 2
YVals == 0 .. 1
Points == (0 .. MaxX) \X YVals
HalfTime == One \div 2

\* a strand with the two samples t = 0 and t = 1
Straight == {<< <<0, a[1], a[2]>>, <<One, b[1], b[2]>> >> : a \in Points, b \in Points}
\* a strand with a third sample at t = 1/2
Bent == {<< <<0, a[1], a[2]>>, <<HalfTime, m[1], m[2]>>, <<One, b[1], b[2]>> >> :
           a \in Points, m \in Points, b \in Points}

\* the position (times Scale) of the strand val at a time t between two of
\* its samples
PosAt(val, t) ==
  LET idx == CHOOSE r \in 2 .. Len(val) : val[r - 1][1] <= t /\ t <= val[r][1]
      a == val[idx - 1]
      b == val[idx]
      w == Scale \div (b[1] - a[1])
  IN <<Scale * a[2] + w * (b[2] - a[2]) * (t - a[1]),
       Scale * a[3] + w * (b[3] - a[3]) * (t - a[1])>>

\* two points moving linearly, u apart at the start and v apart at the end of
\* an interval, meet in it
Meet(u, v) ==
  \/ u = <<0, 0>>
  \/ v = <<0, 0>>
  \/ u[1] * v[2] - u[2] * v[1] = 0 /\ u[1] * v[1] + u[2] * v[2] < 0

Diff(p, q) == <<p[1] - q[1], p[2] - q[2]>>

\* the strands of L are pairwise distinct at every time of [0, 1]
NonColliding(L) ==
  \A j \in DOMAIN L : \A k \in DOMAIN L : j < k =>
    \A t \in 0 .. (One - 1) :
      ~Meet(Diff(PosAt(L[j], t), PosAt(L[k], t)),
            Diff(PosAt(L[j], t + 1), PosAt(L[k], t + 1)))

F3 == {L \in [1 .. 3 -> Straight] : NonColliding(L)}
F2 == {L \in [1 .. 2 -> Straight \cup Bent] : NonColliding(L)}
Families == F2 \cup F3

NoBraid == [err |-> "not called", word |-> <<>>]

\* braid_from_piecewise is not in use
BraidIdle ==
  /\ bpc = "idle"
  /\ strands = <<>>
  /\ braid = NoBraid
  /\ strandsB = <<>>
  /\ braidB = NoBraid
  /\ braidAB = NoBraid


\* a call of braid_from_piecewise(strands)
BraidFromPiecewise ==
  /\ bpc = "input"
  /\ braid' = braid_from_piecewise(strands)
  /\ bpc' = "done"
  /\ UNCHANGED <<strands, strandsB, braidB, braidAB, notBraid>>


-----------------------------------------------------------------------------
(* Two families one after the other, as braid_in_segment multiplies the     *)
(* braids of the initial, the central and the final strands (lines 630-659) *)

JoinPoints == (0 .. 1) \X (0 .. 1)
NoMid == <<>>

\* the strand from a to b, through m at t = 1/2 unless m is NoMid
StrandVia(a, m, b) ==
  IF m = NoMid THEN << <<0, a[1], a[2]>>, <<One, b[1], b[2]>> >>
  ELSE << <<0, a[1], a[2]>>, <<HalfTime, m[1], m[2]>>, <<One, b[1], b[2]>> >>

\* the families on the small grid that start in the configuration a: three
\* straight strands, or two strands of which at most one is bent
JoinFamiliesFrom(a) ==
  LET mids == IF Len(a) = 2
              THEN {m \in [DOMAIN a -> JoinPoints \cup {NoMid}] :
                      \E j \in DOMAIN a : m[j] = NoMid}
              ELSE {[j \in DOMAIN a |-> NoMid]}
  IN {L \in {AsList([j \in DOMAIN a |-> StrandVia(a[j], m[j], b[j])]) :
               m \in mids, b \in [DOMAIN a -> JoinPoints]} :
        NonColliding(L)}

JoinStarts == UNION {[1 .. n -> JoinPoints] : n \in {2, 3}}

EndPoints(L) == AsList([j \in DOMAIN L |-> <<L[j][Len(L[j])][2], L[j][Len(L[j])][3]>>])

\* A re-parametrised to [0, 1/2] followed by B on [1/2, 1]
Concat(A, B) ==
  AsList([j \in DOMAIN A |->
     [r \in DOMAIN A[j] |-> <<A[j][r][1] \div 2, A[j][r][2], A[j][r][3]>>]
     \o [r \in 1 .. (Len(B[j]) - 1) |->
           <<HalfTime + (B[j][r + 1][1] \div 2), B[j][r + 1][2], B[j][r + 1][3]>>]])


\* a second family is followed from the end of the first: its braid, and the
\* braid of the two families joined
JoinStrands ==
  /\ bpc = "done"
  /\ \E B \in JoinFamiliesFrom(EndPoints(strands)) :
       /\ strandsB' = B
       /\ braidB' = braid_from_piecewise(B)
       /\ braidAB' = braid_from_piecewise(Concat(strands, B))
  /\ bpc' = "joined"
  /\ UNCHANGED <<strands, braid, notBraid>>



-----------------------------------------------------------------------------
(* Graphs, as the module uses sage.graphs.graph.Graph: a set V of vertices  *)
(* and a set Ed of undirected edges {u, v}.  A vertex is its coordinate     *)
(* vector <<x, y>>; vertices compare as their vectors do (PointLess).       *)

EmptyGraph == [V |-> {}, Ed |-> {}]
delete_vertices(g, vs) == [V |-> g.V \ vs, Ed |-> {e \in g.Ed : e \cap vs = {}}]
neighbors(g, v) == {w \in g.V : {v, w} \in g.Ed}
subgraph(g, vs) == [V |-> vs, Ed |-> {e \in g.Ed : e \subseteq vs}]

RECURSIVE Reach(_, _, _)
\* the vertices a breadth-first search from `frontier` visits
Reach(g, seen, frontier) ==
  IF frontier = {} THEN seen
  ELSE Reach(g, seen \cup frontier,
             UNION {neighbors(g, u) : u \in frontier} \ (seen \cup frontier))

connected_component_containing_vertex(g, q) == Reach(g, {}, {q})
connected_components(g) == {connected_component_containing_vertex(g, v) : v \in g.V}
connected_components_number(g) == Cardinality(connected_components(g))

\* connected_components_subgraphs(): the components from the largest to the
\* smallest; components of one size come in an order the caller does not fix
connected_components_subgraphs(g) ==
  {o \in [1 .. connected_components_number(g) -> connected_components(g)] :
     /\ \A a, b \in DOMAIN o : a < b => o[a] # o[b]
     /\ \A a, b \in DOMAIN o : a < b => Cardinality(o[a]) >= Cardinality(o[b])}

Unreachable == "+Infinity"
RECURSIVE Layers(_, _, _, _, _)
Layers(g, seen, frontier, v, d) ==
  IF v \in frontier THEN d
  ELSE IF frontier = {} THEN Unreachable
  ELSE Layers(g, seen \cup frontier,
              UNION {neighbors(g, u) : u \in frontier} \ (seen \cup frontier), v, d + 1)

\* the number of edges of a shortest path from q to v
distance(g, q, v) == Layers(g, {}, {q}, v, 0)

\* 2-regular and connected
is_cycle(g) ==
  /\ g.V # {}
  /\ \A v \in g.V : Cardinality(neighbors(g, v)) = 2
  /\ connected_components_number(g) = 1

RECURSIVE shortest_paths(_, _, _)
\* shortest_path(q, r) returns one of the shortest paths; this is all of them
shortest_paths(g, q, r) ==
  IF r = q THEN {<<q>>}
  ELSE LET d == distance(g, q, r)
       IN UNION {{Append(path, r) : path \in shortest_paths(g, q, w)} :
                   w \in {w \in neighbors(g, r) : distance(g, q, w) = d - 1}}

RECURSIVE ExtendTrail(_, _, _)
ExtendTrail(g, trail, used) ==
  IF used = g.Ed
  THEN IF trail[Len(trail)][2] = trail[1][1] THEN {trail} ELSE {}
  ELSE LET u == trail[Len(trail)][2]
       IN UNION {ExtendTrail(g, Append(trail, <<u, w>>), used \cup {{u, w}}) :
                   w \in {w \in neighbors(g, u) : {u, w} \notin used}}

\* eulerian_circuit() returns one closed trail through every edge, as a list
\* of directed edges (u, v), or False when there is none; this is all of them
eulerian_circuits(g) ==
  UNION {ExtendTrail(g, << <<u, w>> >>, {{u, w}}) :
           <<u, w>> \in {d \in g.V \X g.V : {d[1], d[2]} \in g.Ed}}

\* list.index: the first position of x in s (1-based)
index(s, x) == Min({i \in DOMAIN s : s[i] = x})

-----------------------------------------------------------------------------
(* orient_circuit (lines 662-723) *)

\* the argument of the vector d lies in (0, pi]
UpperHalf(d) == d[2] > 0 \/ (d[2] = 0 /\ d[1] < 0)
CrossProduct(a, b) == a[1] * b[2] - a[2] * b[1]

\* line 717: (b/a).argument() lies in (-pi, pi] and equals arg(b) - arg(a)
\* + 2*pi*Wrap(a, b), the arguments taken in (-pi, pi]
Wrap(a, b) ==
  IF ~UpperHalf(a) /\ UpperHalf(b) /\ CrossProduct(a, b) < 0 THEN -1
  ELSE IF UpperHalf(a) /\ ~UpperHalf(b) /\ CrossProduct(a, b) >= 0 THEN 1
  ELSE 0

RECURSIVE SumOver(_, _)
SumOver(f, S) == IF S = {} THEN 0
                 ELSE LET i == CHOOSE i \in S : TRUE IN f[i] + SumOver(f, S \ {i})

\* line 717: totalangle / (2*pi).  The differences arg(b) - arg(a) cancel
\* around the circuit, the wraps remain.
totalangle(circuit) ==
  LET n == Len(circuit)
      vectors == AsList([i \in 1 .. n |-> Diff(circuit[i][2], circuit[i][1])])
      prev(i) == IF i = 1 THEN n ELSE i - 1
  IN SumOver([i \in 1 .. n |-> Wrap(vectors[prev(i)], vectors[i])], 1 .. n)

orient_circuit_AsGiven(circuit) == [returns |-> TRUE, circuit |-> circuit]
\* lines 715-723: the circuit, its reverse, or no return at all: a total
\* angle of zero is neither < 0 nor > 0 at any precision
orient_circuit(circuit) ==
  LET k == totalangle(circuit)
  IN IF k < 0
     THEN [returns |-> TRUE,
           circuit |-> Reverse(AsList([i \in DOMAIN circuit |->
                                         <<circuit[i][2], circuit[i][1]>>]))]
     ELSE IF k > 0 THEN [returns |-> TRUE, circuit |-> circuit]
     ELSE [returns |-> FALSE, circuit |-> <<>>]

-----------------------------------------------------------------------------
(* geometric_basis (lines 726-874), one frame per call in progress *)

PathError == "ValueError: unable to compute a correct path"
NoFrameValue == <<>>

\* the frame of a call that has not executed anything yet
Frame(G, E, p) ==
  [G |-> G, E |-> E, p |-> p, pos |-> "start", EC |-> NoFrameValue,
   connecting_path |-> NoFrameValue, q |-> NoFrameValue, r |-> NoFrameValue,
   cutpath |-> NoFrameValue, G2 |-> EmptyGraph, E2 |-> EmptyGraph,
   gb1 |-> NoFrameValue, gb2 |-> NoFrameValue]

Top == gstack[Len(gstack)]
Below == SubSeq(gstack, 1, Len(gstack) - 1)

\* lines 795-797: the vertices of the oriented circuit, from p round to p
BasedAt(circuit, p) ==
  LET EC == AsList([i \in DOMAIN circuit |-> circuit[i][1]])
      i == index(EC, p)
  IN SubSeq(EC, i, Len(EC)) \o SubSeq(EC, 1, i)

\* lines 798-800
IsBaseCase(G, E) == Cardinality(G.Ed) = Cardinality(E.Ed) /\ is_cycle(E)

\* lines 801-809: the interior graph, seeded with the vertices of degree > 2
\* of E when it is empty
Interior(G, E) ==
  LET ed == G.Ed \ E.Ed
      I == [V |-> UNION ed, Ed |-> ed]
  IN IF I.V = {}
     THEN [V |-> {v \in E.V : Cardinality(neighbors(E, v)) > 2}, Ed |-> {}]
     ELSE I

RECURSIVE FindQ(_, _, _)
\* lines 811-820, i counted from 0 as the code does: EC[i] is EC[i + 1] here,
\* EC[-i] is EC[Len(EC) - i + 1] (EC[-0] is EC[0]), EC[:i] the first i
\* elements and EC[-i:] the last i elements
FindQ(EC, I, i) ==
  IF i >= Len(EC) THEN [found |-> FALSE, q |-> NoFrameValue, connecting_path |-> <<>>]
  ELSE IF EC[i + 1] \in I.V
  THEN [found |-> TRUE, q |-> EC[i + 1], connecting_path |-> SubSeq(EC, 1, i)]
  ELSE IF EC[IF i = 0 THEN 1 ELSE Len(EC) - i + 1] \in I.V
  THEN [found |-> TRUE, q |-> EC[Len(EC) - i + 1],
        connecting_path |-> Reverse(SubSeq(EC, Len(EC) - i + 1, Len(EC)))]
  ELSE FindQ(EC, I, i + 1)

\* line 821: the boundary vertices that I joins to q
Candidates(E, I, q) ==
  {v \in E.V : v \in connected_component_containing_vertex(I, q) /\ v # q}

\* line 821: (E.distance(q, v)**2 / I.distance(q, v), v), the quotient as a
\* fraction num/den
DistanceQuotient(E, I, q, v) ==
  [num |-> distance(E, q, v) * distance(E, q, v), den |-> distance(I, q, v), v |-> v]

\* the order of the tuples of line 821
QuotientLess(a, b) ==
  \/ a.num * b.den < b.num * a.den
  \/ a.num * b.den = b.num * a.den /\ PointLess(a.v, b.v)

\* line 822
FarthestCandidate(E, I, q) ==
  LET dq == [v \in Candidates(E, I, q) |-> DistanceQuotient(E, I, q, v)]
  IN CHOOSE r \in DOMAIN dq : \A v \in DOMAIN dq \ {r} : QuotientLess(dq[v], dq[r])

\* lines 824-827
Gcut(f) == delete_vertices(f.G, Range(f.cutpath))
Ecut(f) == delete_vertices(f.E, {f.q, f.r})

\* the test of line 830
CutSeparates_AtLeastTwo(g) == connected_components_number(g) >= 2

CutSeparates(g) == connected_components_number(g) = 2

\* lines 832-840: a component of Gcut with the edges of G from the cut path
\* to the component and to the cut path itself
WithCutpath(G, cutg, part, cutpath) ==
  LET cut == Range(cutpath)
      added == {{v, n} : v \in cut, n \in part \cup cut} \cap G.Ed
  IN [V |-> part \cup UNION added, Ed |-> subgraph(cutg, part).Ed \cup added]

\* lines 845-858: a component of Ecut with the edges of the cut path and the
\* edges of E from q and r to what the subgraph holds by then
BoundaryWithCutpath(E, cute, part, cutpath, q, r) ==
  LET pathEd == {{cutpath[i], cutpath[i + 1]} : i \in 1 .. (Len(cutpath) - 1)}
      V1 == part \cup UNION pathEd
      ends == {{v, n} : v \in {q, r}, n \in V1} \cap E.Ed
  IN [V |-> V1 \cup UNION ends, Ed |-> subgraph(cute, part).Ed \cup pathEd \cup ends]

\* EC[EC.index(q) + 1] of lines 842 and 846
AfterQ(f) == f.EC[index(f.EC, f.q) + 1]

\* lines 832-858 for one order of the components: the arguments of the two
\* recursive calls
Split(f, Gparts, Eparts) ==
  LET Ga == WithCutpath(f.G, Gcut(f), Gparts[1], f.cutpath)
      Gb == WithCutpath(f.G, Gcut(f), Gparts[2], f.cutpath)
      swapG == AfterQ(f) \in Gb.V
      swapE == AfterQ(f) \in Eparts[2]
      Ea == BoundaryWithCutpath(f.E, Ecut(f), Eparts[1], f.cutpath, f.q, f.r)
      Eb == BoundaryWithCutpath(f.E, Ecut(f), Eparts[2], f.cutpath, f.q, f.r)
  IN [G1 |-> IF swapG THEN Gb ELSE Ga, G2 |-> IF swapG THEN Ga ELSE Gb,
      E1 |-> IF swapE THEN Eb ELSE Ea, E2 |-> IF swapE THEN Ea ELSE Eb]

RECURSIVE Cancel_NoStepBack(_, _)
\* the pass without lines 870-871
Cancel_NoStepBack(r, i) ==
  IF ~(i < Len(r) - 2) THEN r
  ELSE IF r[i + 1] = r[i + 3]
  THEN Cancel_NoStepBack(SubSeq(r, 1, i) \o SubSeq(r, i + 3, Len(r)), i)
  ELSE Cancel_NoStepBack(r, i + 1)

RECURSIVE Cancel(_, _)
\* lines 865-873, i counted from 0: r[i] is r[i + 1] here
Cancel(r, i) ==
  IF ~(i < Len(r) - 2) THEN r
  ELSE IF r[i + 1] = r[i + 3]
  THEN Cancel(SubSeq(r, 1, i) \o SubSeq(r, i + 3, Len(r)), IF i > 0 THEN i - 1 ELSE i)
  ELSE Cancel(r, i + 1)

Resul_NoWayBack(connecting_path, gb) ==
  AsList([k \in DOMAIN gb |-> Cancel(connecting_path \o gb[k], 0)])
\* lines 863-874
Resul(connecting_path, gb) ==
  AsList([k \in DOMAIN gb |->
            Cancel(connecting_path \o gb[k] \o Reverse(connecting_path), 0)])

\* an exception leaves every call in progress
Raise(what) ==
  /\ gpc' = "raised"
  /\ gerr' = what
  /\ UNCHANGED <<gin, gstack, gresult, gcalls>>

\* the innermost call returns `value` to the call below it, or to the caller
Return(value) ==
  IF Below = <<>>
  THEN /\ gstack' = <<>>
       /\ gresult' = value
       /\ gpc' = "returned"
       /\ UNCHANGED <<gin, gerr, gcalls>>
  ELSE LET caller == Below[Len(Below)]
           resumed == IF caller.pos = "in gb1"
                      THEN [caller EXCEPT !.gb1 = value, !.pos = "after gb1"]
                      ELSE [caller EXCEPT !.gb2 = value, !.pos = "after gb2"]
       IN /\ gstack' = [Below EXCEPT ![Len(Below)] = resumed]
          /\ UNCHANGED <<gin, gerr, gresult, gpc, gcalls>>

\* lines 795-797 when orient_circuit returns
GBOrient ==
  /\ gpc = "running"
  /\ Top.pos = "start"
  /\ IF eulerian_circuits(Top.E) = {}
     THEN Raise("TypeError: 'bool' object is not iterable")
     ELSE \E c \in eulerian_circuits(Top.E) :
            /\ orient_circuit(c).returns
            /\ LET oc == orient_circuit(c).circuit
               IN IF \A i \in DOMAIN oc : oc[i][1] # Top.p
                  THEN Raise("ValueError: p is not in list")
                  ELSE /\ gstack' = [gstack EXCEPT ![Len(gstack)] =
                                       [Top EXCEPT !.EC = BasedAt(oc, Top.p),
                                                   !.pos = "oriented"]]
                       /\ UNCHANGED <<gin, gpc, gerr, gresult, gcalls>>
  /\ UNCHANGED notBasis

\* line 795 when the total angle of the circuit is zero: orient_circuit
\* doubles its precision for ever
GBOrientLoops ==
  /\ gpc = "running"
  /\ Top.pos = "start"
  /\ \E c \in eulerian_circuits(Top.E) : ~orient_circuit(c).returns
  /\ gpc' = "diverged"
  /\ UNCHANGED <<gin, gstack, gerr, gresult, gcalls>>
  /\ UNCHANGED notBasis

\* lines 798-800
GBBaseCase ==
  /\ gpc = "running"
  /\ Top.pos = "oriented"
  /\ IsBaseCase(Top.G, Top.E)
  /\ Return(<<Top.EC>>)
  /\ UNCHANGED notBasis

\* lines 801-823
GBChooseCut ==
  /\ gpc = "running"
  /\ Top.pos = "oriented"
  /\ ~IsBaseCase(Top.G, Top.E)
  /\ LET I == Interior(Top.G, Top.E)
         found == FindQ(Top.EC, I, 0)
     IN /\ found.found
        /\ Candidates(Top.E, I, found.q) # {}
        /\ LET r == FarthestCandidate(Top.E, I, found.q)
           IN \E cutpath \in shortest_paths(I, found.q, r) :
                gstack' = [gstack EXCEPT ![Len(gstack)] =
                             [Top EXCEPT !.q = found.q, !.r = r, !.cutpath = cutpath,
                                         !.connecting_path = found.connecting_path,
                                         !.pos = "cut"]]
  /\ UNCHANGED <<gin, gpc, gerr, gresult, gcalls>>
  /\ UNCHANGED notBasis

\* lines 811-822 when they raise: no vertex of EC lies in I (q is never
\* bound), or no other boundary vertex is joined to q in I (max of an empty
\* list)
GBNoCut ==
  /\ gpc = "running"
  /\ Top.pos = "oriented"
  /\ ~IsBaseCase(Top.G, Top.E)
  /\ LET I == Interior(Top.G, Top.E)
         found == FindQ(Top.EC, I, 0)
     IN IF ~found.found
        THEN Raise("UnboundLocalError: q")
        ELSE /\ Candidates(Top.E, I, found.q) = {}
             /\ Raise("ValueError: max() arg is an empty sequence")
  /\ UNCHANGED notBasis

\* lines 830-831
GBBadCut ==
  /\ gpc = "running"
  /\ Top.pos = "cut"
  /\ ~CutSeparates(Gcut(Top))
  /\ Raise(PathError)
  /\ UNCHANGED notBasis

\* lines 832-860: the two halves, and the call for the first
GBSplit ==
  /\ gpc = "running"
  /\ Top.pos = "cut"
  /\ CutSeparates(Gcut(Top))
  /\ IF {connected_components_number(Gcut(Top)),
          connected_components_number(Ecut(Top))} # {2}
     THEN Raise("ValueError: values to unpack")
     ELSE \E Gparts \in connected_components_subgraphs(Gcut(Top)),
             Eparts \in connected_components_subgraphs(Ecut(Top)) :
            LET s == Split(Top, Gparts, Eparts)
            IN /\ gstack' = [gstack EXCEPT ![Len(gstack)] =
                               [Top EXCEPT !.G2 = s.G2, !.E2 = s.E2, !.pos = "in gb1"]]
                             \o <<Frame(s.G1, s.E1, Top.q)>>
               /\ gcalls' = gcalls + 1
               /\ UNCHANGED <<gin, gpc, gerr, gresult>>
  /\ UNCHANGED notBasis

\* line 861
GBCallSecond ==
  /\ gpc = "running"
  /\ Top.pos = "after gb1"
  /\ gstack' = [gstack EXCEPT ![Len(gstack)] = [Top EXCEPT !.pos = "in gb2"]]
               \o <<Frame(Top.G2, Top.E2, Top.q)>>
  /\ gcalls' = gcalls + 1
  /\ UNCHANGED <<gin, gpc, gerr, gresult>>
  /\ UNCHANGED notBasis

\* lines 863-874
GBCombine ==
  /\ gpc = "running"
  /\ Top.pos = "after gb2"
  /\ Return(Resul(Top.connecting_path, Top.gb1 \o Top.gb2))
  /\ UNCHANGED notBasis

-----------------------------------------------------------------------------
(* The inputs of geometric_basis: unions of convex cells, as the bounded    *)
(* regions of a Voronoi diagram are.  A cell is the list of its vertices in  *)
(* counterclockwise order.                                                  *)

GridX == 0 .. 2
GridY == 0 .. 1
MaxCells == 5

Square(x, y) == << <<x, y>>, <<x + 1, y>>, <<x + 1, y + 1>>, <<x, y + 1>> >>
SquareTiling == {Square(x, y) : x \in GridX, y \in GridY}

\* two courses of bricks, the upper one shifted by half a brick
BrickTiling ==
  { << <<0, 0>>, <<2, 0>>, <<2, 1>>, <<1, 1>>, <<0, 1>> >>,
    << <<2, 0>>, <<4, 0>>, <<4, 1>>, <<3, 1>>, <<2, 1>> >>,
    << <<0, 1>>, <<1, 1>>, <<1, 2>>, <<0, 2>> >>,
    << <<1, 1>>, <<2, 1>>, <<3, 1>>, <<3, 2>>, <<1, 2>> >>,
    << <<3, 1>>, <<4, 1>>, <<4, 2>>, <<3, 2>> >> }

Tilings == {SquareTiling, BrickTiling}

CellEdges(c) == {{c[i], c[(i % Len(c)) + 1]} : i \in DOMAIN c}

\* the cells hang together
CellsConnected(S) ==
  LET g == [V |-> S, Ed |-> {e \in {{c, d} : c \in S, d \in S} :
                               \E c, d \in e : c # d /\ Range(c) \cap Range(d) # {}}]
  IN S # {} /\ connected_components_number(g) = 1

Decompositions ==
  UNION {{S \in SUBSET T : Cardinality(S) <= MaxCells /\ CellsConnected(S)} :
           T \in Tilings}

\* lines 919-921: the union of the vertex graphs of the regions
GraphOfCells(S) ==
  LET ed == UNION {CellEdges(c) : c \in S} IN [V |-> UNION ed, Ed |-> ed]

\* lines 922-925: the edges that touch an unbounded region
BoundaryOfCells(S) ==
  LET ed == {e \in UNION {CellEdges(c) : c \in S} :
               Cardinality({c \in S : e \in CellEdges(c)}) = 1}
  IN [V |-> UNION ed, Ed |-> ed]

NoInput == [cells |-> {}, G |-> EmptyGraph, E |-> EmptyGraph, p |-> NoFrameValue]

\* geometric_basis is not in use
BasisIdle ==
  /\ gin = NoInput
  /\ gstack = <<>>
  /\ gpc = "idle"
  /\ gerr = NoErr
  /\ gresult = <<>>
  /\ gcalls = 0

-----------------------------------------------------------------------------
(* corrected_voronoi_diagram (lines 185-239).  The coordinates of the input  *)
(* points are integers; RealField(prec) keeps MantissaBits significant bits  *)
(* for every 53 bits of the code, so that two close points are two integers  *)
(* that share their leading bits.                                           *)

MantissaBits == 2
MaxCoord == 9

RECURSIVE BitLength(_)
BitLength(n) == IF n = 0 THEN 0 ELSE 1 + BitLength(n \div 2)

RECURSIVE Pow2(_)
Pow2(k) == IF k = 0 THEN 1 ELSE 2 * Pow2(k - 1)

\* QQ(RF(x)): x rounded to the nearest number of `bits` significant bits,
\* ties to the even mantissa
RoundTo(x, bits) ==
  LET n == Abs(x)
      e == BitLength(n)
  IN IF e <= bits THEN x
     ELSE LET u == Pow2(e - bits)
              m == n \div u
              rest == n % u
              up == 2 * rest > u \/ (2 * rest = u /\ m % 2 = 1)
              rounded == (IF up THEN m + 1 ELSE m) * u
          IN IF x < 0 THEN -rounded ELSE rounded

\* line 224: the dict from the rounded points to the exact ones; of the
\* points with one rounded value the last one stays
apprpoints(points, prec) ==
  LET key(i) == <<RoundTo(points[i][1], prec), RoundTo(points[i][2], prec)>>
  IN [k \in {key(i) : i \in DOMAIN points} |->
        points[Max({i \in DOMAIN points : key(i) = k})]]

\* line 225
added_points(appr) ==
  3 * Max(UNION {{Abs(k[1]), Abs(k[2])} : k \in DOMAIN appr}) + 1

\* lines 226-229: the sites of the diagram
configuration(appr) ==
  LET a == added_points(appr)
  IN DOMAIN appr \cup {<<a, 0>>, <<-a, 0>>, <<0, a>>, <<0, -a>>}

SqDist(p, q) == (p[1] - q[1]) * (p[1] - q[1]) + (p[2] - q[2]) * (p[2] - q[2])

\* the region of the site s is unbounded: s lies on the boundary of the
\* convex hull of the sites, all sites are on one side of a line through s
rays(s, sites) ==
  \E t \in sites \ {s} :
    \/ \A u \in sites : CrossProduct(Diff(t, s), Diff(u, s)) >= 0
    \/ \A u \in sites : CrossProduct(Diff(t, s), Diff(u, s)) <= 0

\* p is nearer to s than to every other site
interior_contains(s, sites, p) ==
  \A t \in sites \ {s} : SqDist(p, s) < SqDist(p, t)

\* p is as near to s as to any site
contains(s, sites, p) ==
  \A t \in sites : SqDist(p, s) <= SqDist(p, t)

\* lines 231-236
valid(points, prec) ==
  LET appr == apprpoints(points, prec)
      sites == configuration(appr)
  IN \A s \in sites : IF rays(s, sites) THEN TRUE
                       ELSE interior_contains(s, sites, appr[s])

\* lines 232-236: some bounded region does not hold its point
VoronoiEscalate ==
  /\ vpc = "loop"
  /\ ~valid(vpoints, vprec)
  /\ vprec' = vprec + MantissaBits
  /\ UNCHANGED <<vpc, vpoints, vdiagram>>
  /\ UNCHANGED notVoronoi

\* lines 237-239
VoronoiReturn ==
  /\ vpc = "loop"
  /\ valid(vpoints, vprec)
  /\ vdiagram' = configuration(apprpoints(vpoints, vprec))
  /\ vpc' = "returned"
  /\ UNCHANGED <<vpoints, vprec>>
  /\ UNCHANGED notVoronoi

\* the input points: two or three distinct points on two horizontal lines
PointGrid == ((-MaxCoord) .. MaxCoord) \X {0, MaxCoord \div 2}
PointTuples ==
  {t \in UNION {[1 .. n -> PointGrid] : n \in {2}} : t[1] # t[2]}
  \cup {t \in [1 .. 3 -> {p \in PointGrid : p[1] >= 0 /\ p[1] % 2 = 0}] :
          t[1] # t[2] /\ t[1] # t[3] /\ t[2] # t[3]}

\* corrected_voronoi_diagram is not in use
VoronoiIdle ==
  /\ vpc = "idle"
  /\ vpoints = <<>>
  /\ vprec = 0
  /\ vdiagram = {}

-----------------------------------------------------------------------------
(* newton and roots_interval (lines 396-496).  The fibre f(x0, y) is given   *)
(* by its list of roots, Gaussian integers <<re, im>>.  ComplexField(prec)   *)
(* and ComplexIntervalField(prec) keep MantissaBits significant bits for     *)
(* every 53 bits of the code.  The end points of the intervals are integers  *)
(* that count units of 1 / Fine, fine enough for every number that the       *)
(* precisions up to MaxPrec produce.                                         *)

MaxRoot == 2
MaxPrec == 6
FineBits == MaxPrec + MaxPrec \div MantissaBits
Fine == Pow2(FineBits)

\* rounding towards minus infinity and towards plus infinity
MagnitudeDown(n, bits) ==
  LET u == Pow2(Max({0, BitLength(n) - bits})) IN (n \div u) * u
MagnitudeUp(n, bits) ==
  LET u == Pow2(Max({0, BitLength(n) - bits})) IN ((n + u - 1) \div u) * u
RoundDown(x, bits) ==
  IF x >= 0 THEN MagnitudeDown(x, bits) ELSE -MagnitudeUp(-x, bits)
RoundUp(x, bits) ==
  IF x >= 0 THEN MagnitudeUp(x, bits) ELSE -MagnitudeDown(-x, bits)

\* RealIntervalField(bits): intervals <<lower, upper>>, rounded outwards
RIF(x, bits) == <<RoundDown(x, bits), RoundUp(x, bits)>>
RIF_add(a, b, bits) ==
  <<RoundDown(a[1] + b[1], bits), RoundUp(a[2] + b[2], bits)>>
RIF_sub(a, b, bits) ==
  <<RoundDown(a[1] - b[2], bits), RoundUp(a[2] - b[1], bits)>>
RIF_mul(a, b, bits) ==
  LET c == {a[1] * b[1], a[1] * b[2], a[2] * b[1], a[2] * b[2]}
  IN <<RoundDown(Min(c), bits), RoundUp(Max(c), bits)>>
RIF_contains(a, b) == a[1] <= b[1] /\ b[2] <= a[2]
RIF_has_zero(a) == a[1] <= 0 /\ 0 <= a[2]

\* ComplexIntervalField(bits): boxes with a real and an imaginary interval;
\* a box remembers the precision of its field
CIF(z, bits) ==
  [re |-> RIF(z[1], bits), im |-> RIF(z[2], bits), prec |-> bits]
CIF_add(a, b, bits) ==
  [re |-> RIF_add(a.re, b.re, bits), im |-> RIF_add(a.im, b.im, bits),
   prec |-> bits]
CIF_mul(a, b, bits) ==
  [re |-> RIF_sub(RIF_mul(a.re, b.re, bits), RIF_mul(a.im, b.im, bits), bits),
   im |-> RIF_add(RIF_mul(a.re, b.im, bits), RIF_mul(a.im, b.re, bits), bits),
   prec |-> bits]
CIF_contains(a, b) == RIF_contains(a.re, b.re) /\ RIF_contains(a.im, b.im)
CIF_has_zero(a) == RIF_has_zero(a.re) /\ RIF_has_zero(a.im)
\* the result of a division by a box that contains 0: it lies in no box
NaN == [re |-> <<>>, im |-> <<>>, prec |-> 0]

\* the element of a set of one element; {e(v) : v \in {x}} computes x once
Only(S) == CHOOSE x \in S : TRUE

\* exact arithmetic of QQbar on Gaussian integers
Times(a, b) == <<a[1] * b[1] - a[2] * b[2], a[1] * b[2] + a[2] * b[1]>>
Plus(a, b) == <<a[1] + b[1], a[2] + b[2]>>
Zero == <<0, 0>>

\* line 474: fx, the monic polynomial with the given roots; the list of its
\* coefficients, the leading one first
TimesLinear(p, r) ==
  AsList([i \in 1 .. Len(p) + 1 |->
            Diff(IF i <= Len(p) THEN p[i] ELSE Zero,
                 IF i >= 2 THEN Times(p[i - 1], r) ELSE Zero)])
RECURSIVE FromRoots(_, _)
FromRoots(roots, n) ==
  IF n = 0 THEN << <<1, 0>> >>
  ELSE TimesLinear(FromRoots(roots, n - 1), roots[n])
fx(roots) == FromRoots(roots, Len(roots))

\* line 427: f.derivative()
derivative(p) ==
  AsList([i \in 1 .. Len(p) - 1 |->
            <<(Len(p) - i) * p[i][1], (Len(p) - i) * p[i][2]>>])

\* line 427: f(x0), exact
RECURSIVE ExactValueFrom(_, _, _, _)
ExactValueFrom(p, k, res, z) ==
  IF k > Len(p) THEN res
  ELSE ExactValueFrom(p, k + 1, Plus(Times(res, z), p[k]), z)
ExactValue(p, z) == ExactValueFrom(p, 2, p[1], z)

\* line 427: f.derivative()(i0), Horner's rule in the field of i0.  After
\* k products with i0 the end points count units of 1 / Fine^k, and so does
\* the coefficient that is added
RECURSIVE HornerFrom(_, _, _, _, _)
HornerFrom(p, k, res, unit, i0) ==
  IF k > Len(p) THEN res
  ELSE Only({HornerFrom(p, k + 1, next, unit * Fine, i0) :
               next \in {CIF_add(CIF_mul(res, i0, i0.prec),
                                 CIF(<<p[k][1] * unit * Fine,
                                       p[k][2] * unit * Fine>>, i0.prec),
                                 i0.prec)}})
Horner(p, i0) ==
  Only({HornerFrom(q, 2, CIF(q[1], box.prec), 1, box) :
          q \in {p}, box \in {i0}})

\* line 427, for a root x0 of f: f(x0) is the exact zero, the quotient is
\* the zero box unless f'(i0) contains 0, and x0 - 0 is the box of x0
newton(f, x0, i0) ==
  CASE ExactValue(f, x0) = Zero ->
    IF CIF_has_zero(Horner(derivative(f), i0)) THEN NaN
    ELSE CIF(<<x0[1] * Fine, x0[2] * Fine>>, i0.prec)

\* lines 485: newton(fx, r, r+envelop) in r+envelop
NewtonTest_Skipped(f, r, box) == TRUE
NewtonTest(f, r, box) ==
  \E image \in {newton(f, r, box)} :
    image # NaN /\ CIF_contains(box, image)

\* CF(r): the coordinates rounded to the nearest
CF(r, bits) == <<RoundTo(r[1], bits), RoundTo(r[2], bits)>>

\* the square root of n / Fine^2, rounded to the nearest, in units of 1 / Fine
SqrtNearest(n, bits) ==
  IF n = 0 THEN 0
  ELSE LET e == (BitLength(n) + 1) \div 2
           u == Pow2(Max({0, e - bits}))
           m == CHOOSE k \in 0 .. Pow2(bits) :
                  (k * u) * (k * u) <= n /\ n < ((k + 1) * u) * ((k + 1) * u)
           lo == m * u
           mid2 == (2 * lo + u) * (2 * lo + u)
       IN IF 4 * n > mid2 \/ (4 * n = mid2 /\ m % 2 = 1) THEN lo + u ELSE lo

\* lines 483, 490: (CF(r)-CF(r0)).abs()
DistanceCF(r, r0, bits) ==
  LET d == Diff(CF(r, bits), CF(r0, bits))
      dx == RoundTo(d[1], bits)
      dy == RoundTo(d[2], bits)
  IN SqrtNearest((dx * dx + dy * dy) * Fine * Fine, bits)

\* lines 483, 490: the division of a floating point number by a power of 2
\* is exact
diam(roots, i, bits, divisor) ==
  Min({DistanceCF(roots[i], roots[j], bits) : j \in DOMAIN roots \ {i}})
    \div divisor

\* lines 484, 491
envelop(d, bits) == [re |-> <<-d, d>>, im |-> <<-d, d>>, prec |-> bits]

\* r+envelop
Box(roots, i, bits, divisor) ==
  CIF_add(CIF(<<roots[i][1] * Fine, roots[i][2] * Fine>>, bits),
          envelop(diam(roots, i, bits, divisor), bits), bits)

\* lines 479-491: the box of roots[i] that passes the test of line 485;
\* the loop is followed up to the precision MaxPrec
NotIsolated == [re |-> <<>>, im |-> <<>>, prec |-> MaxPrec + MantissaBits]
BeyondMaxPrec == "precision above MaxPrec"
RECURSIVE Isolate(_, _, _, _)
Isolate(roots, i, prec, divisor) ==
  Only({IF NewtonTest(fx(roots), roots[i], box) THEN box
        ELSE IF prec + MantissaBits > MaxPrec THEN NotIsolated
        ELSE Isolate(roots, i, prec + MantissaBits, divisor * 2) :
          box \in {Box(roots, i, prec, divisor)}})

\* line 492
qapr(r, bits) == CF(r, bits)
\* line 493: qapr in r+envelop
KeyInBox(key, box) ==
  CIF_contains(box, [re |-> <<key[1] * Fine, key[1] * Fine>>,
                     im |-> <<key[2] * Fine, key[2] * Fine>>])

ApproximationError == "ValueError: Could not approximate roots with exact values"
EmptyFiberError == "ValueError: min() arg is an empty sequence"
EmptyDict == [k \in {} |-> NaN]
\* result[qapr] = r+envelop
Put(dict, key, value) ==
  [k \in DOMAIN dict \cup {key} |-> IF k = key THEN value ELSE dict[k]]

\* lines 476-496
RECURSIVE ResultFrom(_, _, _)
ResultFrom(roots, i, result) ==
  IF i > Len(roots) THEN [raised |-> "", result |-> result]
  ELSE IF Len(roots) = 1 THEN [raised |-> EmptyFiberError, result |-> EmptyDict]
  ELSE Only({IF box = NotIsolated
               THEN [raised |-> BeyondMaxPrec, result |-> EmptyDict]
             ELSE IF ~KeyInBox(qapr(roots[i], box.prec), box)
               THEN [raised |-> ApproximationError, result |-> EmptyDict]
             ELSE ResultFrom(roots, i + 1,
                             Put(result, qapr(roots[i], box.prec), box)) :
               box \in {Isolate(roots, i, MantissaBits, 4)}})
roots_interval(roots) == ResultFrom(roots, 1, EmptyDict)

\* a call roots_interval(f, x0)
RootsInterval ==
  /\ rpc = "called"
  /\ \E out \in {roots_interval(rroots)} :
       /\ out.raised # BeyondMaxPrec
       /\ rpc' = IF out.raised = "" THEN "returned" ELSE "raised"
       /\ rerr' = out.raised
       /\ rresult' = out.result
  /\ UNCHANGED rroots
  /\ UNCHANGED notRoots

\* the fibres: two or three distinct roots of the upper half of a square,
\* in any order
RootGrid == ((-MaxRoot) .. MaxRoot) \X (0 .. MaxRoot)
Fibers ==
  {t \in [1 .. 2 -> RootGrid] \cup [1 .. 3 -> RootGrid] :
     \A i, j \in DOMAIN t : i # j => t[i] # t[j]}

\* roots_interval is not in use
RootsIdle ==
  /\ rpc = "idle"
  /\ rroots = <<>>
  /\ rerr = ""
  /\ rresult = EmptyDict

-----------------------------------------------------------------------------
(* roots_interval_cached (lines 499-526).  A polynomial f is a product of    *)
(* factors y - (a*x + b) with Gaussian integers a, b, given by the list of   *)
(* the pairs <<a, b>>; x0 is a Gaussian integer.                             *)

MaxCalls == 3

\* line 475: fx.roots(QQbar, multiplicities=False), every root once
RECURSIVE Distinct(_)
Distinct(s) ==
  IF s = <<>> THEN <<>>
  ELSE LET rest == Distinct(SubSeq(s, 1, Len(s) - 1))
       IN IF s[Len(s)] \in Range(rest) THEN rest ELSE Append(rest, s[Len(s)])
\* lines 474-475: the roots of f(x0, y)
Fiber(f, x0) ==
  Distinct(AsList([k \in DOMAIN f |-> Plus(Times(f[k][1], x0), f[k][2])]))

\* (y - x)(y + x) and (y - x)(y + x)(y - 1)
Conic == << << <<1, 0>>, Zero >>, << <<-1, 0>>, Zero >> >>
Cubic == Append(Conic, << Zero, <<1, 0>> >>)
Curves == {Conic, Cubic}
BasePoints == (0 .. MaxRoot) \X (0 .. 1)
CacheKeys ==
  {k \in Curves \X BasePoints :
     \A r \in Range(Fiber(k[1], k[2])) :
       Abs(r[1]) <= MaxRoot /\ Abs(r[2]) <= MaxRoot}

\* one call roots_interval_cached(f, x0), from line 521 to its return or to
\* the exception that leaves it
RootsIntervalCached ==
  /\ cpc = "ready"
  /\ Len(chistory) < MaxCalls
  /\ \E key \in CacheKeys :
       IF key \in DOMAIN roots_interval_cache
         THEN \* line 522
              /\ chistory' = Append(chistory,
                   [key |-> key, raised |-> "",
                    result |-> roots_interval_cache[key],
                    computed |-> FALSE,
                    before |-> roots_interval_cache,
                    after |-> roots_interval_cache])
              /\ UNCHANGED <<roots_interval_cache, ccalls>>
         ELSE \* lines 523-526
              \E out \in {roots_interval(Fiber(key[1], key[2]))} :
                /\ out.raised # BeyondMaxPrec
                /\ ccalls' = ccalls + 1
                /\ roots_interval_cache' =
                     IF out.raised = ""
                       THEN Put(roots_interval_cache, key, out.result)
                       ELSE roots_interval_cache
                /\ chistory' = Append(chistory,
                     [key |-> key, raised |-> out.raised,
                      result |-> out.result,
                      computed |-> TRUE,
                      before |-> roots_interval_cache,
                      after |-> roots_interval_cache'])
  /\ UNCHANGED cpc
  /\ UNCHANGED notCache

\* roots_interval_cached is not in use
CacheIdle ==
  /\ cpc = "idle"
  /\ roots_interval_cache = EmptyDict
  /\ ccalls = 0
  /\ chistory = <<>>

-----------------------------------------------------------------------------
(* braid_monodromy (lines 877-960), from the call of geometric_basis on.     *)
(* The curve g is not modelled: the isolating map of a vertex and the braid  *)
(* of a segment are named by the vertex and by the segment.                  *)

\* lines 933-934: a[0]+I*a[1]
ToComplex(a) == [re |-> a[1], im |-> a[2]]
\* lines 946-947, 956-957: (QQ(z.real()), QQ(z.imag()))
ToRational(z) == <<z.re, z.im>>

\* lines 931-932
AddSegment_Always(segs, s) == segs \cup {s}
AddSegment(segs, s) ==
  IF <<s[2], s[1]>> \notin segs THEN segs \cup {s} ELSE segs

\* lines 929-932: the pairs of the path p from the i-th on
RECURSIVE SegsOfPath(_, _, _)
SegsOfPath(p, i, segs) ==
  IF i >= Len(p) THEN segs
  ELSE SegsOfPath(p, i + 1, AddSegment(segs, <<p[i], p[i + 1]>>))
\* lines 928-932: the paths of geombasis from the k-th on
RECURSIVE SegsFrom(_, _, _)
SegsFrom(geombasis, k, segs) ==
  IF k > Len(geombasis) THEN segs
  ELSE SegsFrom(geombasis, k + 1, SegsOfPath(geombasis[k], 1, segs))
\* lines 928-934
Segs(geombasis) ==
  {<<ToComplex(s[1]), ToComplex(s[2])>> : s \in SegsFrom(geombasis, 1, {})}

\* line 935
Vertices(segs) == UNION {{s[1], s[2]} : s \in segs}
\* the polynomial g, and the map roots_interval(g, v)
TheCurve == "g"
IsolatingMap(key) == [roots_interval |-> key]
populate_roots_interval_cache_Skipped(cache, inputs) == cache
\* lines 556-560
populate_roots_interval_cache(cache, inputs) ==
  [k \in DOMAIN cache \cup inputs |->
     IF k \in DOMAIN cache THEN cache[k] ELSE IsolatingMap(k)]

\* braids: words of letters [seg, exp], freely reduced
RECURSIVE Reduce(_)
Reduce(w) ==
  IF \E i \in 1 .. (Len(w) - 1) :
       w[i].seg = w[i + 1].seg /\ w[i].exp + w[i + 1].exp = 0
    THEN LET i == CHOOSE j \in 1 .. (Len(w) - 1) :
                    w[j].seg = w[j + 1].seg /\ w[j].exp + w[j + 1].exp = 0
         IN Reduce(SubSeq(w, 1, i - 1) \o SubSeq(w, i + 2, Len(w)))
    ELSE w
\* B.one(), b.inverse(), the product of line 958
BraidOne == <<>>
BraidInverse(b) ==
  AsList([i \in DOMAIN b |->
            [seg |-> b[Len(b) + 1 - i].seg, exp |-> -b[Len(b) + 1 - i].exp]])
BraidTimes(a, b) == Reduce(a \o b)
\* braid_in_segment(gfac, x0, x1): on a path that does not move, no root
\* moves
BraidOfSegment(seg) ==
  IF seg[1] = seg[2] THEN BraidOne ELSE <<[seg |-> seg, exp |-> 1]>>

\* lines 928-937
MonodromyCollect ==
  /\ mpc = "basis"
  /\ gpc = "returned"
  /\ msegs' = Segs(gresult)
  /\ roots_interval_cache' =
       populate_roots_interval_cache(roots_interval_cache,
         {<<TheCurve, v>> : v \in Vertices(Segs(gresult))})
  /\ ccalls' = ccalls + Cardinality(
       {<<TheCurve, v>> : v \in Vertices(Segs(gresult))}
         \ DOMAIN roots_interval_cache)
  /\ mpc' = "collected"
  /\ UNCHANGED <<mbatches, mbraids, segsbraids, mresult, merr, mtasks>>
  /\ UNCHANGED <<cpc, chistory>>
  /\ UNCHANGED <<braidVars, basisVars, voronoiVars, rootsVars, segmentVars, orientVars, startVars>>

\* line 938: gfac = g.factor(), for an irreducible g; line 633: g.value()
factor(g) == <<[factor |-> g, multiplicity |-> 1]>>
value(gfac) == gfac[1].factor
\* lines 609-610: X0 = QQ(x0.real()) + I*QQ(x0.imag())
RationalPoint(x0) == ToComplex(ToRational(x0))
\* lines 521-526 in a task: the dict of the task's process after the lookup
AfterLookup(cache, key) ==
  IF key \in DOMAIN cache THEN cache ELSE Put(cache, key, IsolatingMap(key))
\* lines 633-634 in the task braid_in_segment(gfac, seg[0], seg[1]), which
\* runs in a process forked at the dispatch and starts from the dict `cache`
\* of that moment: the two lookups, and the dict of the process after them
SegmentTask(cache, gfac, seg) ==
  LET X0 == RationalPoint(seg[1])
      X1 == RationalPoint(seg[2])
      after0 == AfterLookup(cache, <<value(gfac), X0>>)
      after1 == AfterLookup(after0, <<value(gfac), X1>>)
  IN [seg |-> seg,
      hits |-> << <<value(gfac), X0>> \in DOMAIN cache,
                  <<value(gfac), X1>> \in DOMAIN after0 >>,
      before |-> cache,
      after |-> after1]

\* lines 939-942: where a dispatch that fails with ChildProcessError leaves
\* braid_monodromy: in the except clause after the first, raised after the
\* second
AfterChildProcessError_Retried(pc) == "retry"
AfterChildProcessError(pc) == IF pc = "collected" THEN "retry" ELSE "raised"

\* lines 939-942: one dispatch of the batch; the first may fail with
\* ChildProcessError and is repeated, the second may fail and is not
MonodromyDispatch ==
  /\ mpc \in {"collected", "retry"}
  /\ mbatches' = Append(mbatches, msegs)
  /\ mtasks' = Append(mtasks, {SegmentTask(roots_interval_cache, factor(TheCurve), s) :
                                 s \in msegs})
  /\ \E failed \in BOOLEAN :
       IF ~failed
         THEN /\ mbraids' = {[seg |-> s, braid |-> BraidOfSegment(s)] : s \in msegs}
              /\ mpc' = "computed"
              /\ UNCHANGED merr
         ELSE /\ mpc' = AfterChildProcessError(mpc)
              /\ merr' = IF AfterChildProcessError(mpc) = "raised"
                            THEN "ChildProcessError" ELSE merr
              /\ UNCHANGED mbraids
  /\ UNCHANGED <<msegs, segsbraids, mresult>>
  /\ UNCHANGED notMonodromy

\* lines 949-950 for one element of braidscomputed
TableWith(table, c) ==
  Put(Put(table, <<ToRational(c.seg[1]), ToRational(c.seg[2])>>, c.braid),
      <<ToRational(c.seg[2]), ToRational(c.seg[1])>>, BraidInverse(c.braid))
\* lines 943-950, the elements of braidscomputed in some order
RECURSIVE TableFrom(_, _)
TableFrom(table, computed) ==
  IF computed = {} THEN table
  ELSE LET c == CHOOSE c \in computed : TRUE
       IN TableFrom(TableWith(table, c), computed \ {c})

\* lines 943-951
MonodromyTable ==
  /\ mpc = "computed"
  /\ segsbraids' = TableFrom(EmptyDict, mbraids)
  /\ IF mbraids = {}
       THEN mpc' = "raised" /\ merr' = "UnboundLocalError"
       ELSE mpc' = "tabled" /\ UNCHANGED merr
  /\ UNCHANGED <<msegs, mbatches, mbraids, mresult, mtasks>>
  /\ UNCHANGED notMonodromy

\* line 958: segsbraids[(x0, x1)] raises KeyError for a key that is not in
\* the table
MissingKey == "KeyError"
PathInTable(table, path) ==
  \A i \in 1 .. (Len(path) - 1) : <<path[i], path[i + 1]>> \in DOMAIN table
\* lines 954-958: the braid of the path from its i-th vertex on
RECURSIVE BraidOfPath(_, _, _, _)
BraidOfPath(table, path, i, braidpath) ==
  IF i >= Len(path) THEN braidpath
  ELSE BraidOfPath(table, path, i + 1,
                   BraidTimes(braidpath, table[<<path[i], path[i + 1]>>]))

\* lines 952-960
MonodromyCompose ==
  /\ mpc = "tabled"
  /\ IF \E k \in DOMAIN gresult : ~PathInTable(segsbraids, gresult[k])
       THEN mpc' = "raised" /\ merr' = MissingKey /\ UNCHANGED mresult
       ELSE /\ mresult' = AsList([k \in DOMAIN gresult |->
                            BraidOfPath(segsbraids, gresult[k], 1, BraidOne)])
            /\ mpc' = "returned"
            /\ UNCHANGED merr
  /\ UNCHANGED <<msegs, mbatches, mbraids, segsbraids, mtasks>>
  /\ UNCHANGED notMonodromy

\* braid_monodromy is not in use
MonodromyIdle ==
  /\ mpc = "idle"
  /\ msegs = {}
  /\ mbatches = <<>>
  /\ mtasks = <<>>
  /\ mbraids = {}
  /\ segsbraids = EmptyDict
  /\ mresult = <<>>
  /\ merr = ""

-----------------------------------------------------------------------------
(* braid_in_segment (lines 564-659), from line 629 on: the strands that     *)
(* followstrand returned are given, the curve is (y - x)(y + x).            *)

UnableToMatch == "ValueError: unable to match braid endpoint with root"
MatchesMoreThanOne == "ValueError: braid endpoint mathes more than one root"

\* roots_interval_cached(f, x0) on a cache: the map, and the cache after it
CachedMap(cache, key) ==
  IF key \in DOMAIN cache THEN cache[key]
  ELSE roots_interval(Fiber(key[1], key[2])).result
CacheAfter(cache, key) ==
  IF key \in DOMAIN cache THEN cache
  ELSE Put(cache, key, roots_interval(Fiber(key[1], key[2])).result)

\* lines 639, 648: the centers of the intervals that contain the point
MatchingCenters(point, intervals) ==
  {center \in DOMAIN intervals : KeyInBox(point, intervals[center])}
\* lines 643, 652
MatchedNone_Never(matched) == FALSE
MatchedNone(matched) == matched = 0
\* lines 645, 654
MatchedSeveral(matched) == matched > 1

\* lines 636-637
ip(cs) == <<cs[1][2], cs[1][3]>>
fp(cs) == <<cs[Len(cs)][2], cs[Len(cs)][3]>>

\* lines 635-655: the first ValueError of the loop over complexstrands from
\* the j-th strand on, NoErr when the loop ends
RECURSIVE MatchError(_, _, _, _)
MatchError(complexstrands, j, initialintervals, finalintervals) ==
  IF j > Len(complexstrands) THEN NoErr
  ELSE LET initial == Cardinality(MatchingCenters(ip(complexstrands[j]),
                                                  initialintervals))
           final == Cardinality(MatchingCenters(fp(complexstrands[j]),
                                                finalintervals))
       IN IF MatchedNone(initial) THEN UnableToMatch
          ELSE IF MatchedSeveral(initial) THEN MatchesMoreThanOne
          ELSE IF MatchedNone(final) THEN UnableToMatch
          ELSE IF MatchedSeveral(final) THEN MatchesMoreThanOne
          ELSE MatchError(complexstrands, j + 1, initialintervals, finalintervals)

\* lines 640-641: the strands from the centers to the start points, one for
\* every interval that holds the start point
RECURSIVE InitialStrands(_, _, _)
InitialStrands(complexstrands, j, initialintervals) ==
  IF j > Len(complexstrands) THEN <<>>
  ELSE LET start == ip(complexstrands[j])
       IN (IF MatchingCenters(start, initialintervals) = {} THEN <<>>
           ELSE LET center == CHOOSE c \in MatchingCenters(start, initialintervals) : TRUE
                IN << << <<0, center[1], center[2]>>, <<One, start[1], start[2]>> >> >>)
          \o InitialStrands(complexstrands, j + 1, initialintervals)
\* lines 649-650: the strands from the end points to the centers
RECURSIVE FinalStrands(_, _, _)
FinalStrands(complexstrands, j, finalintervals) ==
  IF j > Len(complexstrands) THEN <<>>
  ELSE LET end == fp(complexstrands[j])
       IN (IF MatchingCenters(end, finalintervals) = {} THEN <<>>
           ELSE LET center == CHOOSE c \in MatchingCenters(end, finalintervals) : TRUE
                IN << << <<0, end[1], end[2]>>, <<One, center[1], center[2]>> >> >>)
          \o FinalStrands(complexstrands, j + 1, finalintervals)

\* lines 630, 656-659
SegmentBraid(complexstrands, initialintervals, finalintervals) ==
  LET initialbraid == braid_from_piecewise(
                        InitialStrands(complexstrands, 1, initialintervals))
      centralbraid == braid_from_piecewise(complexstrands)
      finalbraid == braid_from_piecewise(
                        FinalStrands(complexstrands, 1, finalintervals))
      errors == {initialbraid.err, centralbraid.err, finalbraid.err} \ {NoErr}
  IN IF centralbraid.err # NoErr THEN centralbraid
     ELSE IF errors # {} THEN [err |-> CHOOSE e \in errors : TRUE, word |-> <<>>]
     ELSE [err |-> NoErr,
           word |-> initialbraid.word \o centralbraid.word \o finalbraid.word]

\* lines 629-659
BraidInSegment ==
  /\ spc = "called"
  /\ \E initialintervals \in {CachedMap(roots_interval_cache, <<Conic, sx0>>)} :
     \E after0 \in {CacheAfter(roots_interval_cache, <<Conic, sx0>>)} :
     \E finalintervals \in {CachedMap(after0, <<Conic, sx1>>)} :
     \E after1 \in {CacheAfter(after0, <<Conic, sx1>>)} :
     \E centralbraid \in {braid_from_piecewise(sstrands)} :
       /\ roots_interval_cache' = after1
       /\ ccalls' = ccalls + Cardinality(DOMAIN after1 \ DOMAIN roots_interval_cache)
       /\ chistory' = chistory \o
            << [key |-> <<Conic, sx0>>, raised |-> "", result |-> initialintervals,
                computed |-> <<Conic, sx0>> \notin DOMAIN roots_interval_cache,
                before |-> roots_interval_cache, after |-> after0],
               [key |-> <<Conic, sx1>>, raised |-> "", result |-> finalintervals,
                computed |-> <<Conic, sx1>> \notin DOMAIN after0,
                before |-> after0, after |-> after1] >>
       /\ IF centralbraid.err # NoErr
            THEN sbraid' = centralbraid /\ spc' = "raised"
          ELSE IF MatchError(sstrands, 1, initialintervals, finalintervals) # NoErr
            THEN /\ sbraid' = [err |-> MatchError(sstrands, 1, initialintervals,
                                                  finalintervals),
                               word |-> <<>>]
                 /\ spc' = "raised"
          ELSE \E b \in {SegmentBraid(sstrands, initialintervals, finalintervals)} :
                 /\ sbraid' = b
                 /\ spc' = IF b.err = NoErr THEN "returned" ELSE "raised"
  /\ UNCHANGED <<sx0, sx1, sstrands, cpc>>
  /\ UNCHANGED <<braidVars, basisVars, voronoiVars, rootsVars, monodromyVars, orientVars, startVars>>

\* the ends of the segment, and the points the strands start and end at
SegmentEnds == {<<1, 0>>, <<1, 1>>}
StrandPoints == ((-1) .. 1) \X ((-1) .. 1)
\* two straight strands that do not meet
StrandPairs ==
  {L \in {<< StrandVia(a[1], NoMid, b[1]), StrandVia(a[2], NoMid, b[2]) >> :
            a \in StrandPoints \X StrandPoints,
            b \in StrandPoints \X StrandPoints} : NonColliding(L)}

\* braid_in_segment is not in use
SegmentIdle ==
  /\ spc = "idle"
  /\ sx0 = Zero
  /\ sx1 = Zero
  /\ sstrands = <<>>
  /\ sbraid = NoBraid

-----------------------------------------------------------------------------
(* orient_circuit on a simple closed circuit and on its reverse (the doctest *)
(* of lines 689-710)                                                         *)

\* line 703: cirinv = list(reversed([(c[1], c[0], c[2]) for c in cir]))
cirinv(cir) ==
  Reverse(AsList([i \in DOMAIN cir |-> <<cir[i][2], cir[i][1]>>]))

\* lines 699 and 709: orient_circuit(cir) and orient_circuit(cirinv)
OrientBoth ==
  /\ opc = "called"
  /\ oforward' = orient_circuit(ocircuit)
  /\ obackward' = orient_circuit(cirinv(ocircuit))
  /\ opc' = "done"
  /\ UNCHANGED ocircuit
  /\ UNCHANGED notOrient

\* the point c lies on the closed segment from a to b
OnSegment(a, b, c) ==
  /\ CrossProduct(Diff(b, a), Diff(c, a)) = 0
  /\ Min({a[1], b[1]}) <= c[1] /\ c[1] <= Max({a[1], b[1]})
  /\ Min({a[2], b[2]}) <= c[2] /\ c[2] <= Max({a[2], b[2]})
\* the side of the line through a and b the point c lies on
Side(a, b, c) == sgn(CrossProduct(Diff(b, a), Diff(c, a)), 0)
\* the closed segments from a to b and from c to d have a common point
SegmentsMeet(a, b, c, d) ==
  \/ Side(a, b, c) * Side(a, b, d) < 0 /\ Side(c, d, a) * Side(c, d, b) < 0
  \/ OnSegment(a, b, c) \/ OnSegment(a, b, d)
  \/ OnSegment(c, d, a) \/ OnSegment(c, d, b)
\* the closed polygon with the corners P, in this order, is simple: edges
\* that follow each other meet in their common corner only, the others
\* not at all
IsSimple(P) ==
  LET n == Len(P)
      next(i) == IF i = n THEN 1 ELSE i + 1
  IN \A i, j \in 1 .. n :
       i < j =>
         IF next(i) = j
           THEN ~OnSegment(P[i], P[j], P[next(j)]) /\ ~OnSegment(P[j], P[next(j)], P[i])
         ELSE IF next(j) = i
           THEN ~OnSegment(P[j], P[i], P[next(i)]) /\ ~OnSegment(P[i], P[next(i)], P[j])
         ELSE ~SegmentsMeet(P[i], P[next(i)], P[j], P[next(j)])
\* the circuit of the polygon: the edge from every corner to the next
CircuitOf(P) ==
  AsList([i \in DOMAIN P |-> <<P[i], P[IF i = Len(P) THEN 1 ELSE i + 1]>>])
\* the simple closed circuits with three or four corners on the grid
MaxCorner == 2
Corners == (0 .. MaxCorner) \X (0 .. MaxCorner)
SimpleCircuits ==
  {CircuitOf(P) : P \in {Q \in (Corners \X Corners \X Corners) \cup
                                 (Corners \X Corners \X Corners \X Corners) :
                           /\ \A i, j \in DOMAIN Q : i # j => Q[i] # Q[j]
                           /\ IsSimple(Q)}}

\* orient_circuit has not been called on a pair of circuits
OrientIdle ==
  /\ opc = "idle"
  /\ ocircuit = <<>>
  /\ oforward = [returns |-> FALSE, circuit |-> <<>>]
  /\ obackward = [returns |-> FALSE, circuit |-> <<>>]

-----------------------------------------------------------------------------
(* braid_in_segment (lines 611-628): the intervals of the roots of the fibre *)
(* at x0, factor by factor, before the strands are followed.  A factor is    *)
(* given by its roots at x0.                                                 *)

\* line 624: [r.interval(CIFp) for r in y0sf]
IntervalsOf(y0sf, bits) ==
  AsList([k \in DOMAIN y0sf |-> CIF(<<y0sf[k][1] * Fine, y0sf[k][2] * Fine>>, bits)])
\* a.overlaps(b)
overlaps(a, b) ==
  /\ a.re[1] <= b.re[2] /\ b.re[1] <= a.re[2]
  /\ a.im[1] <= b.im[2] /\ b.im[1] <= a.im[2]
\* line 625 with the intervals of every factor reached so far
AnyOverlap_AllFactors(intervals, f) ==
  \E k, l \in 1 .. f : \E a \in DOMAIN intervals[k] : \E b \in DOMAIN intervals[l] :
    <<k, a>> # <<l, b>> /\ overlaps(intervals[k][a], intervals[l][b])
\* line 625: any(a.overlaps(b) for a, b in combinations(intervals[f], 2))
AnyOverlap(intervals, f) ==
  \E a, b \in DOMAIN intervals[f] :
    a < b /\ overlaps(intervals[f][a], intervals[f][b])

\* lines 622-626: one round of the while loop for the factor f, and line 620
\* for the next factor when the loop is left
StartRound ==
  /\ ipc = "loop"
  /\ \E intervals \in {[iintervals EXCEPT ![ifactor] =
                         IntervalsOf(iroots[ifactor], iprecision[ifactor])]} :
       /\ iintervals' = intervals
       /\ IF AnyOverlap(intervals, ifactor)
            THEN /\ iprecision' = [iprecision EXCEPT ![ifactor] = 2 * @]
                 /\ UNCHANGED <<ipc, ifactor>>
            ELSE IF ifactor < Len(iroots)
            THEN /\ ifactor' = ifactor + 1
                 /\ iprecision' = [iprecision EXCEPT ![ifactor + 1] = MantissaBits]
                 /\ UNCHANGED ipc
            ELSE /\ ipc' = "follow"
                 /\ UNCHANGED <<ifactor, iprecision>>
  /\ UNCHANGED iroots
  /\ UNCHANGED notStart

\* the roots: next to each other where the first precision has one or two
\* numbers between one it can represent and the next
NearRoots ==
  ((Pow2(MantissaBits) + 1) .. (Pow2(MantissaBits) + 3)) \X (0 .. 1)
\* the fibres of a curve of one or two factors with one or two roots each,
\* no two roots the same
FactorFibers ==
  LET one == [1 .. 1 -> NearRoots] \cup [1 .. 2 -> NearRoots]
  IN {g \in [1 .. 1 -> one] \cup [1 .. 2 -> one] :
        \A k, l \in DOMAIN g : \A a \in DOMAIN g[k] : \A b \in DOMAIN g[l] :
          <<k, a>> # <<l, b>> => g[k][a] # g[l][b]}

\* braid_in_segment has not reached line 611
StartIdle ==
  /\ ipc = "idle"
  /\ iroots = <<>>
  /\ ifactor = 0
  /\ iprecision = <<>>
  /\ iintervals = <<>>

-----------------------------------------------------------------------------
(* braid_from_piecewise on a family and on the same strands listed in        *)
(* another order                                                             *)

\* the strands of L in the order sigma
Permuted(L, sigma) == AsList([k \in DOMAIN L |-> L[sigma[k]]])
Orders(n) == {sigma \in [1 .. n -> 1 .. n] : \A a, b \in 1 .. n : a # b => sigma[a] # sigma[b]}

\* lines 63-150, twice
BraidOfPermuted ==
  /\ bpc = "input"
  /\ \E sigma \in Orders(Len(strands)) :
       /\ strandsB' = Permuted(strands, sigma)
       /\ braidB' = braid_from_piecewise(Permuted(strands, sigma))
  /\ braid' = braid_from_piecewise(strands)
  /\ bpc' = "permuted"
  /\ UNCHANGED <<strands, braidAB, notBraid>>

-----------------------------------------------------------------------------
(* Specifications: one per component *)

BraidInit ==
  /\ bpc = "input"
  /\ strands \in Families
  /\ braid = NoBraid
  /\ strandsB = <<>>
  /\ braidB = NoBraid
  /\ braidAB = NoBraid
  /\ BasisIdle
  /\ VoronoiIdle
  /\ RootsIdle
  /\ CacheIdle
  /\ MonodromyIdle
  /\ SegmentIdle
  /\ OrientIdle
  /\ StartIdle

BraidNext == BraidFromPiecewise

SpecBraid == BraidInit /\ [][BraidNext]_vars

JoinInit ==
  /\ bpc = "input"
  /\ \E a \in JoinStarts : strands \in JoinFamiliesFrom(a)
  /\ braid = NoBraid
  /\ strandsB = <<>>
  /\ braidB = NoBraid
  /\ braidAB = NoBraid
  /\ BasisIdle
  /\ VoronoiIdle
  /\ RootsIdle
  /\ CacheIdle
  /\ MonodromyIdle
  /\ SegmentIdle
  /\ OrientIdle
  /\ StartIdle

JoinNext == BraidFromPiecewise \/ JoinStrands

SpecConcat == JoinInit /\ [][JoinNext]_vars

\* a call geometric_basis(G, E, p) on the graph of a decomposition
BasisInit ==
  /\ \E S \in Decompositions :
       \E p \in BoundaryOfCells(S).V :
         /\ gin = [cells |-> S, G |-> GraphOfCells(S), E |-> BoundaryOfCells(S), p |-> p]
         /\ gstack = <<Frame(GraphOfCells(S), BoundaryOfCells(S), p)>>
  /\ gpc = "running"
  /\ gerr = NoErr
  /\ gresult = <<>>
  /\ gcalls = 0
  /\ BraidIdle
  /\ VoronoiIdle
  /\ RootsIdle
  /\ CacheIdle
  /\ MonodromyIdle
  /\ SegmentIdle
  /\ OrientIdle
  /\ StartIdle

BasisNext ==
  \/ GBOrient
  \/ GBOrientLoops
  \/ GBBaseCase
  \/ GBChooseCut
  \/ GBNoCut
  \/ GBBadCut
  \/ GBSplit
  \/ GBCallSecond
  \/ GBCombine

SpecBasis == BasisInit /\ [][BasisNext]_vars

\* a call corrected_voronoi_diagram(points)
VoronoiInit ==
  /\ vpc = "loop"
  /\ vpoints \in PointTuples
  /\ vprec = MantissaBits
  /\ vdiagram = {}
  /\ BraidIdle
  /\ BasisIdle
  /\ RootsIdle
  /\ CacheIdle
  /\ MonodromyIdle
  /\ SegmentIdle
  /\ OrientIdle
  /\ StartIdle

VoronoiNext == VoronoiEscalate \/ VoronoiReturn

SpecVoronoi == VoronoiInit /\ [][VoronoiNext]_vars

\* a call roots_interval(f, x0)
RootsInit ==
  /\ rpc = "called"
  /\ rroots \in Fibers
  /\ rerr = ""
  /\ rresult = EmptyDict
  /\ BraidIdle
  /\ BasisIdle
  /\ VoronoiIdle
  /\ CacheIdle
  /\ MonodromyIdle
  /\ SegmentIdle
  /\ OrientIdle
  /\ StartIdle

RootsNext == RootsInterval

SpecRoots == RootsInit /\ [][RootsNext]_vars

\* a process that starts with an empty cache
CacheInit ==
  /\ cpc = "ready"
  /\ roots_interval_cache = EmptyDict
  /\ ccalls = 0
  /\ chistory = <<>>
  /\ BraidIdle
  /\ BasisIdle
  /\ VoronoiIdle
  /\ RootsIdle
  /\ MonodromyIdle
  /\ SegmentIdle
  /\ OrientIdle
  /\ StartIdle

CacheNext == RootsIntervalCached

SpecCache == CacheInit /\ [][CacheNext]_vars

\* a call braid_monodromy(f) that has reached line 927, with an empty cache
MonodromyInit ==
  /\ \E S \in Decompositions :
       \E p \in BoundaryOfCells(S).V :
         /\ gin = [cells |-> S, G |-> GraphOfCells(S), E |-> BoundaryOfCells(S), p |-> p]
         /\ gstack = <<Frame(GraphOfCells(S), BoundaryOfCells(S), p)>>
  /\ gpc = "running"
  /\ gerr = NoErr
  /\ gresult = <<>>
  /\ gcalls = 0
  /\ mpc = "basis"
  /\ msegs = {}
  /\ mbatches = <<>>
  /\ mtasks = <<>>
  /\ mbraids = {}
  /\ segsbraids = EmptyDict
  /\ mresult = <<>>
  /\ merr = ""
  /\ BraidIdle
  /\ VoronoiIdle
  /\ RootsIdle
  /\ CacheIdle
  /\ SegmentIdle
  /\ OrientIdle
  /\ StartIdle

MonodromyNext ==
  \/ BasisNext
  \/ MonodromyCollect
  \/ MonodromyDispatch
  \/ MonodromyTable
  \/ MonodromyCompose

SpecMonodromy == MonodromyInit /\ [][MonodromyNext]_vars

\* a call braid_in_segment(g, x0, x1) that has reached line 629, with an
\* empty cache
SegmentInit ==
  /\ spc = "called"
  /\ sx0 \in SegmentEnds
  /\ sx1 \in SegmentEnds
  /\ sstrands \in StrandPairs
  /\ sbraid = NoBraid
  /\ BraidIdle
  /\ BasisIdle
  /\ VoronoiIdle
  /\ RootsIdle
  /\ CacheIdle
  /\ MonodromyIdle
  /\ OrientIdle
  /\ StartIdle

SegmentNext == BraidInSegment

SpecSegment == SegmentInit /\ [][SegmentNext]_vars

\* a simple closed circuit, in either direction and from any corner
OrientInit ==
  /\ opc = "called"
  /\ ocircuit \in SimpleCircuits
  /\ oforward = [returns |-> FALSE, circuit |-> <<>>]
  /\ obackward = [returns |-> FALSE, circuit |-> <<>>]
  /\ BraidIdle
  /\ BasisIdle
  /\ VoronoiIdle
  /\ RootsIdle
  /\ CacheIdle
  /\ MonodromyIdle
  /\ SegmentIdle
  /\ StartIdle

OrientNext == OrientBoth

SpecOrient == OrientInit /\ [][OrientNext]_vars

\* line 620 for the first factor
StartInit ==
  /\ ipc = "loop"
  /\ iroots \in FactorFibers
  /\ ifactor = 1
  /\ iprecision = [k \in DOMAIN iroots |-> IF k = 1 THEN MantissaBits ELSE 0]
  /\ iintervals = [k \in DOMAIN iroots |-> <<>>]
  /\ BraidIdle
  /\ BasisIdle
  /\ VoronoiIdle
  /\ RootsIdle
  /\ CacheIdle
  /\ MonodromyIdle
  /\ SegmentIdle
  /\ OrientIdle

StartNext == StartRound

SpecStart == StartInit /\ [][StartNext]_vars

PermuteInit == BraidInit

PermuteNext == BraidOfPermuted

SpecPermute == PermuteInit /\ [][PermuteNext]_vars

-----------------------------------------------------------------------------
(* Claims about braid_from_piecewise *)

StartPoint(val) == <<val[1][2], val[1][3]>>
EndPoint(val) == <<val[Len(val)][2], val[Len(val)][3]>>

\* the position of strand j of L in the lexicographic (x, y) order of the
\* points at(L[k])
LexRank(L, j, at(_)) ==
  1 + Cardinality({k \in DOMAIN L : PointLess(at(L[k]), at(L[j]))})

RECURSIVE ApplyWord(_, _)
\* the arrangement arr (position -> strand) after the adjacent transpositions
\* of word, generator +-i swapping the positions i and i+1
ApplyWord(word, arr) ==
  IF word = <<>> THEN arr
  ELSE LET i == Abs(word[1])
       IN ApplyWord(Tail(word),
                    [arr EXCEPT ![i] = arr[i + 1], ![i + 1] = arr[i]])

IsWordOn(word, n) == \A r \in DOMAIN word : Abs(word[r]) \in 1 .. (n - 1)

\* word carries every strand of L from its place in the order at t = 0 to its
\* place in the order at t = 1
InducesPermutation(L, word) ==
  /\ IsWordOn(word, Len(L))
  /\ LET arr0 == [pos \in DOMAIN L |->
                    CHOOSE j \in DOMAIN L : LexRank(L, j, StartPoint) = pos]
         arr1 == ApplyWord(word, arr0)
     IN \A j \in DOMAIN L : arr1[LexRank(L, j, EndPoint)] = j

\* C1: for strands that are pairwise distinct at every time, the word that
\* braid_from_piecewise returns, read as a product of adjacent transpositions,
\* is the permutation that carries each strand from its position in the
\* lexicographic (x, y) order at t = 0 to its position in that order at t = 1.
C1_WordIsInducedPermutation ==
  bpc = "done" =>
    /\ braid.err = NoErr
    /\ InducesPermutation(strands, braid.word)

\* three strands whose order is reversed: three crossings are resolved
C1_Witness ==
  /\ bpc = "done"
  /\ Len(strands) = 3
  /\ Len(braid.word) = 3
  /\ \A j \in 1 .. 3 :
       LexRank(strands, j, StartPoint) + LexRank(strands, j, EndPoint) = 4

\* C6: if family B starts where family A ends, the braid of the joined family
\* (A on [0, 1/2], then B on [1/2, 1]) is braid_from_piecewise(A) followed by
\* braid_from_piecewise(B): the words are equal, hence so are the braids.
C6_ConcatenationIsProduct ==
  bpc = "joined" =>
    /\ braidAB.err = NoErr
    /\ braidAB.word = braid.word \o braidB.word

\* both families cross, and in the joined family a straight strand is
\* interpolated at a breakpoint of a bent one on either side of t = 1/2
C6_Witness ==
  /\ bpc = "joined"
  /\ braid.word # <<>>
  /\ braidB.word # <<>>
  /\ \E j \in DOMAIN strands : Len(strands[j]) = 3
  /\ \E j \in DOMAIN strandsB : Len(strandsB[j]) = 3

\* the crossings that braid_from_piecewise(L) resolves, in order, each as
\* the tuple (difference of the positions, k, j, sign) popped at line 143
CrossingsResolved(L) ==
  IntervalLoop(TotalPoints(L), 1,
               [err |-> NoErr, word |-> <<>>, crosses |-> <<>>]).crosses

\* C15: for strands that never collide, every crossing that is resolved is
\* between two strands whose positions under the running permutation differ
\* by exactly 1 when it is resolved, and every generator of the word is a
\* nonzero integer +-i with 1 <= i <= n - 1; there is one generator for every
\* crossing resolved.
C15_ResolvedCrossingsAreAdjacent ==
  bpc = "done" =>
    /\ braid.err = NoErr
    /\ \A r \in DOMAIN CrossingsResolved(strands) :
         Abs(CrossingsResolved(strands)[r][1]) = 1
    /\ Len(braid.word) = Len(CrossingsResolved(strands))
    /\ \A r \in DOMAIN braid.word :
         braid.word[r] # 0 /\ Abs(braid.word[r]) \in 1 .. (Len(strands) - 1)

\* three straight strands that are above the same x at t = 1/2: their three
\* crossings share the parameter, and the outer two strands, two positions
\* apart at first, have crossed
C15_Witness ==
  /\ bpc = "done"
  /\ Len(strands) = 3
  /\ \A j \in 1 .. 3 : Len(strands[j]) = 2 /\ strands[j][1][2] + strands[j][2][2] = 2
  /\ \A j, k \in 1 .. 3 : j # k => strands[j][1][2] # strands[k][1][2]
  /\ \E r \in DOMAIN CrossingsResolved(strands) :
       /\ CrossingsResolved(strands)[r][2] = 1
       /\ CrossingsResolved(strands)[r][3] = 3
  /\ Len(braid.word) = 3

-----------------------------------------------------------------------------
(* Claims about geometric_basis *)

\* the walk starts and ends at p and moves along an edge of G at every step
IsClosedWalk(G, p, walk) ==
  /\ Len(walk) >= 2
  /\ walk[1] = p
  /\ walk[Len(walk)] = p
  /\ \A i \in 1 .. (Len(walk) - 1) : {walk[i], walk[i + 1]} \in G.Ed

\* G and E have the same edges but E is not a single cycle: I starts empty
\* and is seeded (lines 806-809)
SeededInput == gin.G.Ed = gin.E.Ed /\ ~is_cycle(gin.E)

\* C2: on every decomposition graph, the seeded ones included, the call
\* geometric_basis(G, E, p) returns without raising (and without running for
\* ever), and what it returns is a list with one loop for every bounded
\* region.
C2_ReturnsOneLoopPerRegion ==
  /\ gpc \notin {"raised", "diverged"}
  /\ gpc = "returned" => Len(gresult) = Cardinality(gin.cells)

\* C2, what does hold: a list that is returned has one loop per region
C2_ReturnedListHasOneLoopPerRegion ==
  gpc = "returned" => Len(gresult) = Cardinality(gin.cells)

\* C2, the seeded inputs: none of them returns
C2_SeededInputNeverReturns == SeededInput => gpc # "returned"

\* C3: every loop of the returned list is a closed walk in G based at p:
\* it starts and ends at p and every two consecutive vertices are joined by
\* an edge of G.
C3_LoopsAreClosedWalks ==
  gpc = "returned" =>
    \A k \in DOMAIN gresult : IsClosedWalk(gin.G, gin.p, gresult[k])

\* C9: a call whose cut path does not leave exactly two components of G
\* raises the ValueError of line 831 as its next step, with no recursive call
\* made and no frame added; and a call that raised has returned nothing.
C9_BadCutRaisesBeforeRecursion ==
  /\ [][(gpc = "running" /\ Top.pos = "cut"
           /\ connected_components_number(Gcut(Top)) # 2)
          => (gpc' = "raised" /\ gerr' = PathError /\ gcalls' = gcalls
                /\ gstack' = gstack /\ gresult' = gresult)]_vars
  /\ [](gpc = "raised" => gresult = <<>>)

\* the cut path of the outermost call runs through a boundary vertex and
\* leaves three components: the call has raised
C9_Witness ==
  /\ gpc = "raised"
  /\ gerr = PathError
  /\ gcalls = 0
  /\ connected_components_number(Gcut(Top)) = 3

-----------------------------------------------------------------------------
(* Claims about corrected_voronoi_diagram *)

BoundedSites == {s \in vdiagram : ~rays(s, vdiagram)}

\* C4: the diagram that is returned has exactly one input point in the
\* interior of every bounded region, every input point lies in a bounded
\* region, and there are as many bounded regions as input points.
C4_OnePointPerBoundedRegion ==
  vpc = "returned" =>
    /\ \A s \in BoundedSites :
         Cardinality({i \in DOMAIN vpoints :
                        interior_contains(s, vdiagram, vpoints[i])}) = 1
    /\ \A i \in DOMAIN vpoints :
         \E s \in BoundedSites : contains(s, vdiagram, vpoints[i])
    /\ Cardinality(BoundedSites) = Len(vpoints)

\* C4, what does hold: every bounded region holds an input point in its
\* interior and every input point lies in the interior of a bounded region
C4_RegionsAndPointsMeet ==
  vpc = "returned" =>
    /\ \A s \in BoundedSites :
         \E i \in DOMAIN vpoints : interior_contains(s, vdiagram, vpoints[i])
    /\ \A i \in DOMAIN vpoints :
         \E s \in BoundedSites : interior_contains(s, vdiagram, vpoints[i])

-----------------------------------------------------------------------------
(* Claims about roots_interval *)

Disjoint(a, b) ==
  \/ a.re[2] < b.re[1] \/ b.re[2] < a.re[1]
  \/ a.im[2] < b.im[1] \/ b.im[2] < a.im[1]

\* C5: for a fibre of at least two distinct roots, the intervals of the map
\* that roots_interval returns are pairwise disjoint, every interval contains
\* its key, and every interval is the box of a root whose interval Newton
\* image, at the precision of the box, lies inside the box.
C5_IntervalsIsolateTheRoots ==
  rpc = "returned" =>
    /\ \A k, l \in DOMAIN rresult :
         k # l => Disjoint(rresult[k], rresult[l])
    /\ \A k \in DOMAIN rresult : KeyInBox(k, rresult[k])
    /\ \A k \in DOMAIN rresult : \E i \in DOMAIN rroots :
         /\ k = qapr(rroots[i], rresult[k].prec)
         /\ newton(fx(rroots), rroots[i], rresult[k]) # NaN
         /\ CIF_contains(rresult[k], newton(fx(rroots), rroots[i], rresult[k]))

\* three roots, one box accepted at the first precision and one after a
\* failed Newton test
C5_Witness ==
  /\ rpc = "returned"
  /\ Len(rroots) = 3
  /\ Cardinality(DOMAIN rresult) = 3
  /\ \E k \in DOMAIN rresult : rresult[k].prec = MantissaBits
  /\ \E k \in DOMAIN rresult : rresult[k].prec > MantissaBits

-----------------------------------------------------------------------------
(* Claims about roots_interval_cached *)

\* the calls i < j have the same arguments, with no call of these
\* arguments in between
Twice(i, j) ==
  /\ i \in DOMAIN chistory /\ j \in DOMAIN chistory /\ i < j
  /\ chistory[i].key = chistory[j].key

\* the second of two calls returns what the first returned, from the cache
SecondCallIsAHit(i, j) ==
  /\ chistory[i].raised = "" /\ chistory[j].raised = ""
  /\ chistory[j].result = chistory[i].result
  /\ ~chistory[j].computed
  /\ chistory[j].after = chistory[j].before

\* the first call of all with its arguments computes the map and stores it
FirstCallStores(i) ==
  (\A h \in 1 .. i - 1 : chistory[h].key # chistory[i].key) =>
    /\ chistory[i].computed
    /\ chistory[i].raised = ""
    /\ chistory[i].after = Put(chistory[i].before, chistory[i].key,
                               chistory[i].result)

\* C10: of two calls roots_interval_cached(f, x0) with the same (f, x0) the
\* first computes the map with roots_interval and stores it under (f, x0),
\* and the second returns the same map without a call of roots_interval and
\* without a change of the cache.
C10_SecondCallReturnsStoredMap ==
  \A i, j \in DOMAIN chistory :
    Twice(i, j) => FirstCallStores(i) /\ SecondCallIsAHit(i, j)

\* C10, for the calls that return: a call that returns has stored its map,
\* and every later call with the same arguments returns that map without a
\* call of roots_interval and without a change of the cache
C10_ReturnedMapIsReused ==
  \A i, j \in DOMAIN chistory :
    (Twice(i, j) /\ chistory[i].raised = "") =>
      /\ chistory[i].after[chistory[i].key] = chistory[i].result
      /\ SecondCallIsAHit(i, j)

\* C10, a fibre of one root: every call raises and computes again
C10_RaisingCallIsRepeated ==
  \A i \in DOMAIN chistory :
    Len(Fiber(chistory[i].key[1], chistory[i].key[2])) = 1 =>
      /\ chistory[i].raised = EmptyFiberError
      /\ chistory[i].computed
      /\ chistory[i].after = chistory[i].before

-----------------------------------------------------------------------------
(* Claims about braid_monodromy *)

\* the pairs of consecutive vertices of the basis loops
ConsecutivePairs ==
  UNION {{<<gresult[k][i], gresult[k][i + 1]>> : i \in 1 .. (Len(gresult[k]) - 1)} :
           k \in DOMAIN gresult}
\* the tasks of a batch that follow the edge {u, v}, in either direction
TasksOf(batch, u, v) ==
  {s \in batch : s \in {<<ToComplex(u), ToComplex(v)>>,
                        <<ToComplex(v), ToComplex(u)>>}}

\* C7: for every pair of consecutive vertices (u, v) of every basis loop,
\* the segment set holds one of (u, v) and (v, u) and every dispatch of the
\* batch has one task for the edge; once the table is filled it has entries
\* for (u, v) and for (v, u), inverse to each other; and the composition of
\* the loops never looks up a missing key.
C7_EverySegmentOnceBothDirectionsInTable ==
  /\ mpc \in {"collected", "retry", "computed", "tabled", "returned", "raised"} =>
       \A p \in ConsecutivePairs :
         /\ Cardinality(TasksOf(msegs, p[1], p[2])) = 1
         /\ \A k \in DOMAIN mbatches :
              Cardinality(TasksOf(mbatches[k], p[1], p[2])) = 1
  /\ mpc \in {"tabled", "returned"} =>
       \A p \in ConsecutivePairs :
         /\ <<p[1], p[2]>> \in DOMAIN segsbraids
         /\ <<p[2], p[1]>> \in DOMAIN segsbraids
         /\ segsbraids[<<p[2], p[1]>>] = BraidInverse(segsbraids[<<p[1], p[2]>>])
  /\ merr # MissingKey
  /\ mpc = "returned" => Len(mresult) = Len(gresult)

\* braid_monodromy has returned, and some edge is followed in both
\* directions by the basis loops
C7_Witness ==
  /\ mpc = "returned"
  /\ Len(mresult) >= 2
  /\ \E p \in ConsecutivePairs :
       p[1] # p[2] /\ <<p[2], p[1]>> \in ConsecutivePairs

-----------------------------------------------------------------------------
(* Claims about braid_in_segment *)

\* the number of intervals of the isolating map at x that hold the point
Matches(point, x) ==
  Cardinality({center \in DOMAIN roots_interval_cache[<<Conic, x>>] :
                 KeyInBox(point, roots_interval_cache[<<Conic, x>>][center])})
\* every strand starts in one interval of the map at x0 and ends in one
\* interval of the map at x1
EveryEndpointMatchesOnce ==
  \A j \in DOMAIN sstrands :
    Matches(ip(sstrands[j]), sx0) = 1 /\ Matches(fp(sstrands[j]), sx1) = 1

\* C8: braid_in_segment returns a braid only if the start point of every
\* strand lies in exactly one interval of the isolating map at x0 and its end
\* point in exactly one interval of the map at x1; if some end point lies in
\* no interval or in several, it raises ValueError and returns no braid.
C8_BraidOnlyForMatchedEndpoints ==
  /\ spc = "returned" => EveryEndpointMatchesOnce /\ sbraid.err = NoErr
  /\ (spc \in {"returned", "raised"} /\ ~EveryEndpointMatchesOnce) =>
       /\ spc = "raised"
       /\ sbraid.err \in {UnableToMatch, MatchesMoreThanOne}
       /\ sbraid.word = <<>>

\* a call that raised because an end point of the second strand is in no
\* interval, the first strand being matched at both ends
C8_Witness ==
  /\ spc = "raised"
  /\ sbraid.err = UnableToMatch
  /\ Matches(ip(sstrands[1]), sx0) = 1
  /\ Matches(fp(sstrands[1]), sx1) = 1
  /\ Matches(fp(sstrands[2]), sx1) = 0

-----------------------------------------------------------------------------
(* Claims about orient_circuit *)

\* twice the area the circuit goes round, positive when it goes round
\* counterclockwise
TwiceArea(circuit) ==
  SumOver([i \in DOMAIN circuit |-> CrossProduct(circuit[i][1], circuit[i][2])],
          DOMAIN circuit)

\* C11: for a simple closed circuit c and its exact reverse c', both calls of
\* orient_circuit return, they return the same list of edges, that list is c
\* or c', and it goes round counterclockwise.
C11_CircuitAndReverseGiveCounterclockwise ==
  opc = "done" =>
    /\ oforward.returns /\ obackward.returns
    /\ oforward.circuit = obackward.circuit
    /\ oforward.circuit \in {ocircuit, cirinv(ocircuit)}
    /\ TwiceArea(oforward.circuit) > 0

\* a clockwise circuit with a reflex corner: the first call reverses it and
\* the second returns its argument
C11_Witness ==
  /\ opc = "done"
  /\ Len(ocircuit) = 4
  /\ TwiceArea(ocircuit) < 0
  /\ \E i \in 1 .. 3 :
       CrossProduct(Diff(ocircuit[i][2], ocircuit[i][1]),
                    Diff(ocircuit[i + 1][2], ocircuit[i + 1][1])) > 0
  /\ oforward.circuit = cirinv(ocircuit)
  /\ obackward.circuit = cirinv(ocircuit)

-----------------------------------------------------------------------------
(* Claims about the dispatch of the segments in braid_monodromy *)

\* the keys (g, v) of the end points of the segments
EndpointKeys(segs) ==
  UNION {{<<TheCurve, s[1]>>, <<TheCurve, s[2]>>} : s \in segs}

\* C12: once line 937 is done, and so before any dispatch, the cache has an
\* entry (g, v) for each end point v of each segment of the batch; in every
\* dispatch both lookups of every task are hits, and the dict of the task's
\* process is after the task what it was before, and what the cache is.
C12_CachePopulatedBeforeDispatch ==
  /\ mpc \in {"collected", "retry", "computed", "tabled", "returned", "raised"} =>
       EndpointKeys(msegs) \subseteq DOMAIN roots_interval_cache
  /\ \A k \in DOMAIN mtasks :
       /\ {t.seg : t \in mtasks[k]} = msegs
       /\ \A t \in mtasks[k] :
            /\ t.hits = <<TRUE, TRUE>>
            /\ t.after = t.before
            /\ t.after = roots_interval_cache

\* a batch of more than one segment was dispatched twice, with two tasks
\* that look up the same vertex
C12_Witness ==
  /\ mpc = "computed"
  /\ Len(mtasks) = 2
  /\ \E s, t \in msegs : s # t /\ s[2] = t[1]

\* the dispatches made so far, against the position of braid_monodromy
DispatchesSoFar ==
  /\ Len(mbatches) <= 2
  /\ \A k \in DOMAIN mbatches : mbatches[k] = msegs
  /\ mpc = "collected" => Len(mbatches) = 0
  /\ mpc = "retry" => Len(mbatches) = 1
  /\ mpc \in {"computed", "tabled", "returned"} => Len(mbatches) \in {1, 2}
  /\ merr = "ChildProcessError" <=> (mpc = "raised" /\ Len(mbatches) = 2 /\ mbraids = {})
\* no dispatch follows a dispatch that succeeded or a second failure, and
\* the second dispatch follows the first failure
DispatchStep ==
  /\ mpc \in {"computed", "tabled", "returned", "raised"} => mbatches' = mbatches
  /\ mpc = "retry" => mbatches' = Append(mbatches, msegs)

\* C13: the batch is dispatched at most twice, and twice the same batch; it
\* is dispatched a second time exactly when the first dispatch failed with
\* ChildProcessError, and a failure of the second dispatch leaves
\* braid_monodromy as ChildProcessError; after a dispatch that succeeded
\* there is no other dispatch.
C13_RetryOnce == []DispatchesSoFar /\ [][DispatchStep]_vars

\* the first dispatch failed, the second one succeeded and braid_monodromy
\* returned
C13_Witness ==
  /\ mpc = "returned"
  /\ Len(mbatches) = 2
  /\ msegs # {}

-----------------------------------------------------------------------------
(* Claims about the edges the loops of geometric_basis go along *)

\* the number of steps from u to v in the returned loops
Traversals(u, v) ==
  SumOver([k \in DOMAIN gresult |->
             Cardinality({i \in 1 .. (Len(gresult[k]) - 1) :
                            gresult[k][i] = u /\ gresult[k][i + 1] = v})],
          DOMAIN gresult)
\* the edges of E, each in the direction in which its region goes round
\* counterclockwise
BoundarySteps ==
  {s \in UNION {{<<c[i], c[(i % Len(c)) + 1]>> : i \in DOMAIN c} : c \in gin.cells} :
     {s[1], s[2]} \in gin.E.Ed}

\* C14: the returned loops go along every edge of E once in each direction.
C14_BoundaryEdgesOnceEachWay ==
  gpc = "returned" =>
    \A s \in BoundarySteps :
      Traversals(s[1], s[2]) = 1 /\ Traversals(s[2], s[1]) = 1

\* C14, amended: the returned loops go along every edge of E once more in
\* the direction in which its region goes round counterclockwise than in the
\* other direction, and along every other edge of G as often in one direction
\* as in the other.
C14_BoundaryEdgesNetOnceCounterclockwise ==
  gpc = "returned" =>
    /\ \A s \in BoundarySteps :
         Traversals(s[1], s[2]) - Traversals(s[2], s[1]) = 1
    /\ \A e \in gin.G.Ed \ gin.E.Ed :
         \A u, v \in e : Traversals(u, v) = Traversals(v, u)

\* a list of several loops was returned; an edge of E is gone along three
\* times, and an edge that is not in E is gone along in both directions
C14_Witness ==
  /\ gpc = "returned"
  /\ Len(gresult) >= 2
  /\ \E s \in BoundarySteps :
       Traversals(s[1], s[2]) = 2 /\ Traversals(s[2], s[1]) = 1
  /\ \E e \in gin.G.Ed \ gin.E.Ed : \E u, v \in e : Traversals(u, v) > 0

-----------------------------------------------------------------------------
(* Claims about the cancellation pass of geometric_basis *)

\* some vertex of the walk is the one two places on
HasBackAndForth(r) == \E i \in 1 .. (Len(r) - 2) : r[i] = r[i + 2]
\* the walks of line 863, before the pass, of the call that is about to
\* return from the recursive case
WalksToCancel ==
  AsList([k \in DOMAIN (Top.gb1 \o Top.gb2) |->
            Top.connecting_path \o (Top.gb1 \o Top.gb2)[k] \o Reverse(Top.connecting_path)])
\* the walks after the pass: what the call returns
WalksCancelled == Resul(Top.connecting_path, Top.gb1 \o Top.gb2)

\* C16: in every call that is about to return from the recursive case, no
\* walk it returns has an index i with r[i] = r[i + 2], and each walk has the
\* first and the last vertex it had before the pass; no walk of a list that
\* geometric_basis returned from the recursive case has such an index.
C16_NoBackAndForthLeft ==
  /\ (gpc = "running" /\ Top.pos = "after gb2") =>
       \A k \in DOMAIN WalksToCancel :
         /\ ~HasBackAndForth(WalksCancelled[k])
         /\ WalksCancelled[k] # <<>>
         /\ WalksCancelled[k][1] = WalksToCancel[k][1]
         /\ WalksCancelled[k][Len(WalksCancelled[k])] =
              WalksToCancel[k][Len(WalksToCancel[k])]
  /\ (gpc = "returned" /\ gcalls > 0) =>
       \A k \in DOMAIN gresult : ~HasBackAndForth(gresult[k])

\* a call whose pass cancels a walk two times in a row, stepping back after
\* the first: the walk went back and forth over two edges
C16_Witness ==
  /\ gpc = "running"
  /\ Top.pos = "after gb2"
  /\ \E k \in DOMAIN WalksToCancel :
       /\ \E i \in 2 .. (Len(WalksToCancel[k]) - 3) :
            /\ WalksToCancel[k][i] = WalksToCancel[k][i + 2]
            /\ WalksToCancel[k][i - 1] = WalksToCancel[k][i + 3]
       /\ Len(WalksCancelled[k]) <= Len(WalksToCancel[k]) - 4

-----------------------------------------------------------------------------
(* Claims about the intervals braid_in_segment starts the strands from *)

\* C17: when the strands are about to be followed, the intervals of all the
\* roots of the fibre at x0, those of all factors together, are pairwise
\* disjoint.
C17_StartIntervalsDisjoint ==
  ipc = "follow" => ~AnyOverlap_AllFactors(iintervals, Len(iintervals))

\* C17, what does hold: the intervals of the roots of one factor are pairwise
\* disjoint, for every factor
C17_DisjointWithinEachFactor ==
  ipc = "follow" => \A f \in DOMAIN iintervals : ~AnyOverlap(iintervals, f)

-----------------------------------------------------------------------------
(* Claims about the precisions tried *)

\* the precision is the first one doubled some number of times
IsDoubled(prec) == \E k \in 0 .. MaxPrec : prec = MantissaBits * Pow2(k)

\* C18: every precision at which roots_interval accepts a box, and every
\* precision corrected_voronoi_diagram works at, is the first precision
\* doubled k times, k the number of retries made.
C18_RetriesDoublePrecision ==
  /\ rpc = "returned" => \A q \in DOMAIN rresult : IsDoubled(rresult[q].prec)
  /\ vpc \in {"loop", "returned"} => IsDoubled(vprec)

\* C18, what does hold: the precision after k retries is k + 1 times the
\* first precision
C18_RetriesAddTheFirstPrecision ==
  /\ rpc = "returned" =>
       \A q \in DOMAIN rresult : rresult[q].prec \in {MantissaBits * k : k \in 1 .. MaxPrec}
  /\ vpc \in {"loop", "returned"} => vprec \in {MantissaBits * k : k \in 1 .. MaxPrec}

-----------------------------------------------------------------------------
(* Claims about the order of the strands *)

\* C19: for strands that never collide, braid_from_piecewise returns the same
\* word for the family and for the same strands listed in any other order.
C19_WordIndependentOfListing ==
  bpc = "permuted" =>
    /\ braid.err = NoErr
    /\ braidB = braid

\* three strands listed in two orders that differ, with three crossings
\* resolved
C19_Witness ==
  /\ bpc = "permuted"
  /\ Len(strands) = 3
  /\ strandsB[1] = strands[3]
  /\ strandsB[3] = strands[1]
  /\ strands[1] # strands[3]
  /\ Len(braid.word) = 3

-----------------------------------------------------------------------------
(* Claims about the size of the map of roots_interval *)

\* the call of roots_interval made by the i-th call of roots_interval_cached
\* returned a map with one entry for every distinct root of the fibre
OneEntryPerRoot(i) ==
  /\ chistory[i].raised = ""
  /\ Cardinality(DOMAIN chistory[i].result) =
       Len(Fiber(chistory[i].key[1], chistory[i].key[2]))

\* C20: every call roots_interval(f, x0) returns a map with one entry for
\* every distinct root of f(x0, y), the fibres of one root included.
C20_OneEntryPerDistinctRoot ==
  \A i \in DOMAIN chistory : chistory[i].computed => OneEntryPerRoot(i)

\* C20, what does hold: one entry for every root when the fibre has two
\* roots or more
C20_OneEntryPerRootOfLargerFibres ==
  \A i \in DOMAIN chistory :
    (chistory[i].computed /\ Len(Fiber(chistory[i].key[1], chistory[i].key[2])) > 1)
      => OneEntryPerRoot(i)

=============================================================================
